---- MODULE Spec2Model ----
(***************************************************************************)
(* ZUN protocol codec of the Zetrafi client (src/src/zun/encoder.ts):      *)
(* ZunEncoder as recursive operators over JavaScript values, ZunDecoder as *)
(* a cursor machine over a byte buffer.                                    *)
(*                                                                         *)
(* Bytes are integers 0..255.  A JavaScript number is its IEEE-754 double, *)
(* kept as the 8 bytes of its big-endian bit pattern.  A JavaScript string *)
(* is the sequence of its code points.  An object is the sequence of its   *)
(* own enumerable string-keyed properties in the order Object.keys yields  *)
(* them, together with its prototype.                                      *)
(***************************************************************************)
EXTENDS Integers, Sequences, FiniteSets, TLC

(***************************************************************************)
(* Bounds of the explored inputs.                                          *)
(***************************************************************************)
MaxLen == 2
MaxRaw == 6

(***************************************************************************)
(* ZunType (src/src/zun/types.ts)                                          *)
(***************************************************************************)
ZunType_ARRAY == 1
ZunType_OBJECT == 2
ZunType_STREAM_ARRAY == 3
ZunType_STREAM_OBJECT == 4

(***************************************************************************)
(* Sequence helpers                                                        *)
(***************************************************************************)
Min(a, b) == IF a < b THEN a ELSE b

\* Uint8Array.prototype.slice(start, end): end is clamped to the length.
Slice(buf, start, end) ==
  LET e == Min(end, Len(buf))
  IN  IF start >= e THEN <<>> ELSE SubSeq(buf, start + 1, e)

(***************************************************************************)
(* Fixed-width big-endian fields (DataView)                                *)
(***************************************************************************)
\* DataView.setUint32(0, n, false) for 0 <= n < 2^31
SetUint32(n) ==
  << n \div 16777216, (n \div 65536) % 256, (n \div 256) % 256, n % 256 >>

\* DataView.setUint16(0, n, false): n is taken modulo 2^16
SetUint16(n) == << (n \div 256) % 256, n % 256 >>

\* DataView.setInt32(1, n, false): two's complement of n, -2^31 <= n < 2^31
SetInt32(n) ==
  IF n >= 0 THEN SetUint32(n)
  ELSE LET m == (n + 2147483647) + 1   \* n + 2^31, in 0 .. 2^31-1
       IN  << 128 + (m \div 16777216), (m \div 65536) % 256,
              (m \div 256) % 256, m % 256 >>

\* DataView.getUint16(offset, false)
GetUint16(buf, off) == buf[off + 1] * 256 + buf[off + 2]

\* DataView.getUint32(offset, false).  A value of 2^31 or more is returned
\* as 2^31-1: the decoder only compares the value with loop indices and
\* byte counts, all smaller than the buffer length, so every comparison has
\* the same outcome.
GetUint32(buf, off) ==
  IF buf[off + 1] >= 128 THEN 2147483647
  ELSE buf[off + 1] * 16777216 + buf[off + 2] * 65536
       + buf[off + 3] * 256 + buf[off + 4]

\* DataView.getInt32(offset, false) as a mathematical integer
GetInt32(buf, off) ==
  LET low == (buf[off + 1] % 128) * 16777216 + buf[off + 2] * 65536
             + buf[off + 3] * 256 + buf[off + 4]
  IN  IF buf[off + 1] >= 128 THEN (low - 2147483647) - 1 ELSE low

(***************************************************************************)
(* IEEE-754 doubles as 8 bytes d[1..8], big-endian                         *)
(***************************************************************************)
F64Sign(d) == d[1] \div 128
F64Exp(d) == (d[1] % 128) * 16 + (d[2] \div 16)
\* the 52 fraction bits as limbs of 20, 16 and 16 bits
F64FracHi(d) == (d[2] % 16) * 65536 + d[3] * 256 + d[4]
F64FracMid(d) == d[5] * 256 + d[6]
F64FracLo(d) == d[7] * 256 + d[8]

\* the low k bits of the fraction are zero, 0 <= k <= 52
F64LowBitsZero(d, k) ==
  /\ k >= 16 \/ F64FracLo(d) % (2 ^ k) = 0
  /\ k < 16 \/ F64FracLo(d) = 0
  /\ k <= 16 \/ k >= 32 \/ F64FracMid(d) % (2 ^ (k - 16)) = 0
  /\ k < 32 \/ F64FracMid(d) = 0
  /\ k <= 32 \/ F64FracHi(d) % (2 ^ (k - 32)) = 0

F64IsZero(d) ==
  F64Exp(d) = 0 /\ F64FracHi(d) = 0 /\ F64FracMid(d) = 0 /\ F64FracLo(d) = 0

\* Number.isInteger(value)
NumberIsInteger(d) ==
  LET e == F64Exp(d) - 1023
  IN  \/ F64IsZero(d)
      \/ /\ F64Exp(d) # 0 /\ F64Exp(d) # 2047
         /\ e >= 0
         /\ e >= 52 \/ F64LowBitsZero(d, 52 - e)

InInt32Range_Symmetric(d) ==
  LET e == F64Exp(d) - 1023
  IN  \/ F64IsZero(d)
      \/ e <= 30
      \/ /\ e = 31
         /\ F64FracHi(d) = 0 /\ F64FracMid(d) = 0 /\ F64FracLo(d) = 0

\* value >= -2147483648 && value <= 2147483647, for an integral value
InInt32Range(d) ==
  LET e == F64Exp(d) - 1023
  IN  \/ F64IsZero(d)
      \/ e <= 30
      \/ /\ e = 31 /\ F64Sign(d) = 1
         /\ F64FracHi(d) = 0 /\ F64FracMid(d) = 0 /\ F64FracLo(d) = 0

\* the mathematical integer of a double that passed both tests
F64ToInt(d) ==
  LET e == F64Exp(d) - 1023
      frac == IF e <= 20 THEN F64FracHi(d) \div (2 ^ (20 - e))
              ELSE F64FracHi(d) * (2 ^ (e - 20))
                   + (F64FracMid(d) \div (2 ^ (36 - e)))
  IN  IF F64IsZero(d) THEN 0
      ELSE IF e = 31 THEN (0 - 2147483647) - 1
      ELSE IF F64Sign(d) = 1 THEN 0 - ((2 ^ e) + frac) ELSE (2 ^ e) + frac

\* the double of a 32-bit integer (the number getInt32 returns)
IntToF64(n) ==
  IF n = 0 THEN <<0, 0, 0, 0, 0, 0, 0, 0>>
  ELSE IF n = (0 - 2147483647) - 1 THEN <<193, 224, 0, 0, 0, 0, 0, 0>>
  ELSE
    LET sign == IF n < 0 THEN 1 ELSE 0
        mag == IF n < 0 THEN 0 - n ELSE n
        e == CHOOSE k \in 0..30 :
               /\ 2 ^ k <= mag
               /\ k = 30 \/ mag < 2 ^ (k + 1)
        frac == mag - 2 ^ e
        hi == IF e <= 20 THEN frac * (2 ^ (20 - e)) ELSE frac \div (2 ^ (e - 20))
        mid == IF e <= 20 THEN 0 ELSE (frac % (2 ^ (e - 20))) * (2 ^ (36 - e))
        ex == 1023 + e
    IN  << sign * 128 + (ex \div 16), (ex % 16) * 16 + (hi \div 65536),
           (hi \div 256) % 256, hi % 256, mid \div 256, mid % 256, 0, 0 >>

(***************************************************************************)
(* UTF-8 (TextEncoder / TextDecoder)                                       *)
(***************************************************************************)
\* TextEncoder: the UTF-8 bytes of one code point
Utf8OfCodePoint(c) ==
  IF c < 128 THEN << c >>
  ELSE IF c < 2048 THEN << 192 + (c \div 64), 128 + (c % 64) >>
  ELSE IF c < 65536
    THEN << 224 + (c \div 4096), 128 + ((c \div 64) % 64), 128 + (c % 64) >>
  ELSE << 240 + (c \div 262144), 128 + ((c \div 4096) % 64),
          128 + ((c \div 64) % 64), 128 + (c % 64) >>

\* new TextEncoder().encode(str)
RECURSIVE TextEncode(_)
TextEncode(str) ==
  IF Len(str) = 0 THEN <<>>
  ELSE IF Len(str) = 1 THEN Utf8OfCodePoint(str[1])
  ELSE LET half == Len(str) \div 2
       IN  TextEncode(SubSeq(str, 1, half))
             \o TextEncode(SubSeq(str, half + 1, Len(str)))

ReplacementChar == 65533
ByteOrderMark == 65279

IsCont(bytes, i, lo, hi) == i <= Len(bytes) /\ bytes[i] >= lo /\ bytes[i] <= hi

\* TextDecoder (utf-8, not fatal): decoding from index i; a malformed
\* sequence yields U+FFFD for its maximal valid prefix.
RECURSIVE Utf8DecodeFrom(_, _)
Utf8DecodeFrom(bytes, i) ==
  IF i > Len(bytes) THEN <<>>
  ELSE
    LET b == bytes[i]
        lo2 == IF b = 224 THEN 160 ELSE IF b = 240 THEN 144 ELSE 128
        hi2 == IF b = 237 THEN 159 ELSE IF b = 244 THEN 143 ELSE 191
    IN  IF b < 128 THEN << b >> \o Utf8DecodeFrom(bytes, i + 1)
        ELSE IF b >= 194 /\ b <= 223 THEN
          IF IsCont(bytes, i + 1, 128, 191)
            THEN << (b - 192) * 64 + (bytes[i + 1] - 128) >>
                 \o Utf8DecodeFrom(bytes, i + 2)
            ELSE << ReplacementChar >> \o Utf8DecodeFrom(bytes, i + 1)
        ELSE IF b >= 224 /\ b <= 239 THEN
          IF ~IsCont(bytes, i + 1, lo2, hi2)
            THEN << ReplacementChar >> \o Utf8DecodeFrom(bytes, i + 1)
          ELSE IF ~IsCont(bytes, i + 2, 128, 191)
            THEN << ReplacementChar >> \o Utf8DecodeFrom(bytes, i + 2)
          ELSE << (b - 224) * 4096 + (bytes[i + 1] - 128) * 64
                  + (bytes[i + 2] - 128) >>
               \o Utf8DecodeFrom(bytes, i + 3)
        ELSE IF b >= 240 /\ b <= 244 THEN
          IF ~IsCont(bytes, i + 1, lo2, hi2)
            THEN << ReplacementChar >> \o Utf8DecodeFrom(bytes, i + 1)
          ELSE IF ~IsCont(bytes, i + 2, 128, 191)
            THEN << ReplacementChar >> \o Utf8DecodeFrom(bytes, i + 2)
          ELSE IF ~IsCont(bytes, i + 3, 128, 191)
            THEN << ReplacementChar >> \o Utf8DecodeFrom(bytes, i + 3)
          ELSE << (b - 240) * 262144 + (bytes[i + 1] - 128) * 4096
                  + (bytes[i + 2] - 128) * 64 + (bytes[i + 3] - 128) >>
               \o Utf8DecodeFrom(bytes, i + 4)
        ELSE << ReplacementChar >> \o Utf8DecodeFrom(bytes, i + 1)

\* new TextDecoder().decode(bytes): a leading byte order mark is dropped
TextDecode(bytes) ==
  LET cps == Utf8DecodeFrom(bytes, 1)
  IN  IF cps # <<>> /\ Head(cps) = ByteOrderMark THEN Tail(cps) ELSE cps

(***************************************************************************)
(* JavaScript values (ZunValue, src/src/zun/types.ts)                      *)
(***************************************************************************)
Null == [t |-> "null"]
Undefined == [t |-> "undefined"]
Bool(b) == [t |-> "bool", b |-> b]
Num(d) == [t |-> "num", f64 |-> d]
Str(s) == [t |-> "str", s |-> s]

\* Object.prototype, the prototype of every object literal
ObjectPrototype == [t |-> "Object.prototype"]

\* an array with its elements and its __zunType property ("" when unset)
Arr(items) == [t |-> "arr", items |-> items, zunType |-> ""]

\* an object: own enumerable properties << key, value >> in Object.keys
\* order, and the prototype
Obj(entries) == [t |-> "obj", props |-> entries, proto |-> ObjectPrototype]

\* property names as code points
K_zunType == <<95, 95, 122, 117, 110, 84, 121, 112, 101>>   \* "__zunType"
K_proto == <<95, 95, 112, 114, 111, 116, 111, 95, 95>>      \* "__proto__"
K_data == <<100, 97, 116, 97>>                              \* "data"
K_traceback == <<116, 114, 97, 99, 101, 98, 97, 99, 107>>   \* "traceback"
S_object == <<111, 98, 106, 101, 99, 116>>                  \* "object"

HasOwn(obj, key) == \E i \in 1..Len(obj.props) : obj.props[i][1] = key
OwnIndex(obj, key) == CHOOSE i \in 1..Len(obj.props) : obj.props[i][1] = key

\* Object.keys(obj)
ObjectKeys(obj) == [i \in 1..Len(obj.props) |-> obj.props[i][1]]

\* a canonical array index "0" .. "4294967294": such keys come first in
\* Object.keys, in ascending numeric order
RECURSIVE SeqLess(_, _)
SeqLess(a, b) ==
  IF b = <<>> THEN FALSE
  ELSE IF a = <<>> THEN TRUE
  ELSE IF Head(a) # Head(b) THEN Head(a) < Head(b)
  ELSE SeqLess(Tail(a), Tail(b))

MaxArrayIndex == <<52, 50, 57, 52, 57, 54, 55, 50, 57, 52>>   \* "4294967294"

IsArrayIndex(key) ==
  /\ Len(key) >= 1 /\ Len(key) <= 10
  /\ \A i \in 1..Len(key) : key[i] >= 48 /\ key[i] <= 57
  /\ Len(key) = 1 \/ key[1] # 48
  /\ Len(key) < 10 \/ ~SeqLess(MaxArrayIndex, key)

IndexLess(a, b) == Len(a) < Len(b) \/ (Len(a) = Len(b) /\ SeqLess(a, b))

\* obj[key] (own property read; undefined when absent)
RECURSIVE GetProp(_, _)
GetProp(obj, key) ==
  IF obj.t # "obj" THEN Undefined
  ELSE IF HasOwn(obj, key) THEN obj.props[OwnIndex(obj, key)][2]
  ELSE IF obj.proto.t = "obj" THEN GetProp(obj.proto, key)
  ELSE Undefined

\* key in obj: own or inherited through the prototype chain (the names asked
\* for are not properties of Object.prototype or of arrays)
RECURSIVE HasProp(_, _)
HasProp(obj, key) ==
  /\ obj.t = "obj"
  /\ HasOwn(obj, key) \/ HasProp(obj.proto, key)

\* an assignment to "__proto__" reaches the accessor of Object.prototype
RECURSIVE ProtoSetterApplies(_)
ProtoSetterApplies(o) ==
  IF o.t = "Object.prototype" \/ o.t = "arr" THEN TRUE
  ELSE IF o.t # "obj" THEN FALSE
  ELSE IF HasOwn(o, K_proto) THEN FALSE
  ELSE ProtoSetterApplies(o.proto)

\* the position at which a new own property is created
InsertAt(entries, key) ==
  IF IsArrayIndex(key)
    THEN Cardinality({i \in 1..Len(entries) :
           IsArrayIndex(entries[i][1]) /\ IndexLess(entries[i][1], key)})
    ELSE Len(entries)

\* obj[key] = value
ObjSet(obj, key, value) ==
  IF key = K_proto /\ ~HasOwn(obj, key) /\ ProtoSetterApplies(obj.proto)
    THEN IF value.t \in {"obj", "arr", "null"}
           THEN [obj EXCEPT !.proto = value] ELSE obj
  ELSE IF HasOwn(obj, key)
    THEN [obj EXCEPT !.props[OwnIndex(obj, key)] = << key, value >>]
  ELSE LET n == InsertAt(obj.props, key)
       IN  [obj EXCEPT !.props = SubSeq(obj.props, 1, n) \o << << key, value >> >>
                              \o SubSeq(obj.props, n + 1, Len(obj.props))]

\* the object built by setting the given properties in order
RECURSIVE ObjFrom(_, _)
ObjFrom(obj, pairs) ==
  IF pairs = <<>> THEN obj
  ELSE ObjFrom(ObjSet(obj, Head(pairs)[1], Head(pairs)[2]), Tail(pairs))

MkObj(pairs) == ObjFrom(Obj(<<>>), pairs)

\* !value
Falsy(value) ==
  \/ value.t \in {"null", "undefined"}
  \/ value.t = "bool" /\ ~value.b
  \/ value.t = "num" /\ F64IsZero(value.f64)
  \/ value.t = "num" /\ F64Exp(value.f64) = 2047 /\ ~F64LowBitsZero(value.f64, 52)
  \/ value.t = "str" /\ value.s = <<>>

(***************************************************************************)
(* ZunEncoder                                                              *)
(***************************************************************************)
Ok(bytes) == [ok |-> TRUE, bytes |-> bytes, error |-> ""]
Threw(msg) == [ok |-> FALSE, bytes |-> <<>>, error |-> msg]

InvalidRoot == "Root value must be ZunArray or ZunObject"
UnsupportedType == "Unsupported value type"

\* the first failure of a sequence of results, or their concatenation
RECURSIVE ConcatResults(_)
ConcatResults(rs) ==
  IF rs = <<>> THEN Ok(<<>>)
  ELSE IF ~Head(rs).ok THEN Head(rs)
  ELSE LET rest == ConcatResults(Tail(rs))
       IN  IF rest.ok THEN Ok(Head(rs).bytes \o rest.bytes) ELSE rest

\* the keys encodeObject iterates over
EncodedKeys(obj) == SelectSeq(ObjectKeys(obj), LAMBDA k : k # K_zunType)

RECURSIVE EncodeValue(_), EncodeArray(_), EncodeObject(_)

EncodeArray_Terminated(arr) ==
  ConcatResults(<< Ok(<< ZunType_ARRAY >>), Ok(SetUint32(Len(arr.items))) >>
                \o [i \in 1..Len(arr.items) |-> EncodeValue(arr.items[i])]
                \o << Ok(<< 0 >>) >>)

EncodeArray(arr) ==
  ConcatResults(<< Ok(<< ZunType_ARRAY >>), Ok(SetUint32(Len(arr.items))) >>
                \o [i \in 1..Len(arr.items) |-> EncodeValue(arr.items[i])])

EncodeEntry(obj, key) ==
  LET keyBuffer == TextEncode(key)
  IN  ConcatResults(<< Ok(SetUint16(Len(keyBuffer))), Ok(keyBuffer),
                       EncodeValue(GetProp(obj, key)) >>)

EncodeObject_CountAllKeys(obj) ==
  LET keys == EncodedKeys(obj)
  IN  ConcatResults(<< Ok(<< ZunType_OBJECT >>), Ok(SetUint32(Len(ObjectKeys(obj)))) >>
                    \o [i \in 1..Len(keys) |-> EncodeEntry(obj, keys[i])])

EncodeObject(obj) ==
  LET keys == EncodedKeys(obj)
  IN  ConcatResults(<< Ok(<< ZunType_OBJECT >>), Ok(SetUint32(Len(keys))) >>
                    \o [i \in 1..Len(keys) |-> EncodeEntry(obj, keys[i])])

EncodeValue(value) ==
  IF value.t = "null" THEN Ok(<< 0 >>)
  ELSE IF value.t = "bool" THEN Ok(<< 1, IF value.b THEN 1 ELSE 0 >>)
  ELSE IF value.t = "num" THEN
    IF NumberIsInteger(value.f64) /\ InInt32Range(value.f64)
      THEN Ok(<< 2 >> \o SetInt32(F64ToInt(value.f64)))
      ELSE Ok(<< 3 >> \o value.f64)
  ELSE IF value.t = "str" THEN
    LET strBuffer == TextEncode(value.s)
    IN  Ok(<< 4 >> \o SetUint32(Len(strBuffer)) \o strBuffer)
  ELSE IF value.t = "arr" THEN EncodeArray(value)
  ELSE IF value.t = "obj" THEN EncodeObject(value)
  ELSE Threw(UnsupportedType)

Encode_AnyRoot(value) == EncodeValue(value)

\* ZunEncoder.encode
Encode(value) ==
  IF value.t = "arr" THEN EncodeArray(value)
  ELSE IF value.t = "obj" THEN EncodeObject(value)
  ELSE Threw(InvalidRoot)

EncodeResponse_NonEmptyOnly(data, traceback) ==
  LET supplied(list) == list.t = "arr" /\ list.items # <<>>
      withData == IF supplied(data) THEN ObjSet(Obj(<<>>), K_data, data)
                  ELSE Obj(<<>>)
      obj == IF supplied(traceback) THEN ObjSet(withData, K_traceback, traceback)
             ELSE withData
  IN  EncodeObject(obj)

\* ZunEncoder.encodeResponse
EncodeResponse(data, traceback) ==
  LET withData == IF ~Falsy(data) THEN ObjSet(Obj(<<>>), K_data, data)
                  ELSE Obj(<<>>)
      obj == IF ~Falsy(traceback) THEN ObjSet(withData, K_traceback, traceback)
             ELSE withData
  IN  EncodeObject(obj)

(***************************************************************************)
(* ZunDecoder: outcomes                                                    *)
(***************************************************************************)
NoError == [msg |-> "", byte |-> -1]
BufferUnderrun == [msg |-> "Unexpected end of buffer", byte |-> -1]
UnknownTag(b) == [msg |-> "Unknown type byte", byte |-> b]

NotRun == [done |-> FALSE, ok |-> FALSE, value |-> Undefined, error |-> NoError]
Returned(value) == [done |-> TRUE, ok |-> TRUE, value |-> value, error |-> NoError]
Thrown(err) == [done |-> TRUE, ok |-> FALSE, value |-> Undefined, error |-> err]

(***************************************************************************)
(* ZunDecoder: the primitive readers                                       *)
(***************************************************************************)
\* each reader yields the value read and the number of bytes consumed, or
\* fails when the bytes it needs are not in the buffer
Read(value, width) == [ok |-> TRUE, value |-> value, width |-> width]
ReadFails == [ok |-> FALSE, value |-> Undefined, width |-> 0]

DecodeBoolean(buf, off) ==
  IF off >= Len(buf) THEN ReadFails ELSE Read(Bool(buf[off + 1] = 1), 1)

DecodeInt32(buf, off) ==
  IF off + 4 > Len(buf) THEN ReadFails
  ELSE Read(Num(IntToF64(GetInt32(buf, off))), 4)

DecodeDouble(buf, off) ==
  IF off + 8 > Len(buf) THEN ReadFails
  ELSE Read(Num(SubSeq(buf, off + 1, off + 8)), 8)

ReadUInt32BE(buf, off) ==
  IF off + 4 > Len(buf) THEN ReadFails ELSE Read(GetUint32(buf, off), 4)

ReadUInt16BE(buf, off) ==
  IF off + 2 > Len(buf) THEN ReadFails ELSE Read(GetUint16(buf, off), 2)

\* the case clauses of the switch in decodeValue, in source order; the
\* first clause whose label equals the type byte is taken
SwitchCases ==
  << << ZunType_ARRAY, "decodeArray" >>,
     << ZunType_OBJECT, "decodeObject" >>,
     << 0, "null" >>,
     << 1, "decodeBoolean" >>,
     << 2, "decodeInt32" >>,
     << 3, "decodeDouble" >>,
     << 4, "decodeString" >> >>

SwitchTarget_DefaultNull(type) ==
  IF \E i \in 1..Len(SwitchCases) : SwitchCases[i][1] = type
    THEN LET first == CHOOSE i \in 1..Len(SwitchCases) :
                        /\ SwitchCases[i][1] = type
                        /\ \A j \in 1..(i - 1) : SwitchCases[j][1] # type
         IN  SwitchCases[first][2]
    ELSE "null"

SwitchTarget(type) ==
  IF \E i \in 1..Len(SwitchCases) : SwitchCases[i][1] = type
    THEN LET first == CHOOSE i \in 1..Len(SwitchCases) :
                        /\ SwitchCases[i][1] = type
                        /\ \A j \in 1..(i - 1) : SwitchCases[j][1] # type
         IN  SwitchCases[first][2]
    ELSE "default"

(***************************************************************************)
(* State                                                                   *)
(***************************************************************************)
VARIABLES
  root,      \* the value handed to ZunEncoder.encode, the arguments of
             \* ZunEncoder.encodeResponse, or NoValue
  encoded,   \* the outcome of ZunEncoder.encode(root)
  buffer,    \* ZunDecoder.buffer
  offset,    \* ZunDecoder.offset
  pc,        \* the decoder method about to run
  stack,     \* the active decodeArray / decodeObject calls, innermost last
  type,      \* the type byte read last by decodeValue
  len,       \* keyLength of decodeObject / length of decodeString
  call,      \* the static method in progress
  result,    \* the outcome of the outermost decodeValue call
  decoded,   \* the outcome of ZunDecoder.decode(buffer)
  response,  \* the outcome of ZunDecoder.decodeResponse(buffer)
  apiKey,    \* ZetrafiClient.apiKey
  cpc,       \* the position of the zunRequest call in progress
  request,   \* the request zunRequest handed to fetch
  http,      \* the response fetch resolved with
  timer,     \* the timeout armed by zunRequest
  outcome,   \* what zunRequest returned or threw
  prior,     \* the buffer, outcome and final offset of an earlier decode
  customHeaders,      \* ZetrafiClient.customHeaders
  lastRateLimitInfo,  \* ZetrafiClient.lastRateLimitInfo
  calls,     \* the calls of request in progress, one per caller
  server     \* the bodies the server answers a ZUN request with

\* the state of the ZetrafiClient and of its zunRequest call
session == << customHeaders, lastRateLimitInfo, calls, server >>
client == << apiKey, cpc, request, http, timer, outcome, session >>

vars == << root, encoded, buffer, offset, pc, stack, type, len, call,
           result, decoded, response, apiKey, cpc, request, http, timer,
           outcome, prior, customHeaders, lastRateLimitInfo, calls, server >>

NoValue == [t |-> "none"]

NoRequest == [method |-> "", body |-> <<>>, headers |-> Obj(<<>>)]
NoResponse == [status |-> 0, body |-> <<>>]

\* no decode went before
NoPrior == [buffer |-> <<>>, offset |-> 0, outcome |-> NotRun]

\* zunRequest has neither returned nor thrown
Pending ==
  [kind |-> "pending", name |-> "", code |-> "", statusCode |-> 0,
   message |-> "", details |-> [t |-> "undefined"],
   value |-> [data |-> [t |-> "undefined"], traceback |-> [t |-> "undefined"]]]

\* the arguments of a call of encodeResponse; an omitted one is undefined
ResponseArgs(data, traceback) ==
  [t |-> "encodeResponse", data |-> data, traceback |-> traceback]
NotEncoded == [ok |-> FALSE, bytes |-> <<>>, error |-> "not run"]

\* the response headers X-RateLimit-Limit, -Remaining, -Reset and -Type as
\* Headers.get returns them: null when the header is absent
RateLimitHeaders(limit, remaining, reset, typeHeader) ==
  [limit |-> limit, remaining |-> remaining, reset |-> reset,
   typeHeader |-> typeHeader]
NoRateLimitHeaders == RateLimitHeaders(Null, Null, Null, Null)

\* the response of a JSON endpoint: its status, its rate-limit headers and
\* the fields message, error and data of its body
NoJson == [message |-> "", error |-> "", data |-> Undefined]
NoApiResponse == [status |-> 0, headers |-> NoRateLimitHeaders, json |-> NoJson]

\* a caller that has not called request
NoCall ==
  [op |-> "", at |-> "idle", timer |-> "unset", request |-> NoRequest,
   http |-> NoApiResponse, outcome |-> Pending]

(***************************************************************************)
(* Inputs                                                                  *)
(***************************************************************************)
N0 == Num(IntToF64(0))
N1 == Num(IntToF64(1))
N2 == Num(IntToF64(2))
Half == Num(<<63, 224, 0, 0, 0, 0, 0, 0>>)                  \* 0.5
S_x == <<120>>                                              \* "x"
S_a == <<97>>                                               \* "a"
S_b == <<98>>                                               \* "b"
S_oops == <<111, 111, 112, 115>>                            \* "oops"
S_other == <<111, 116, 104, 101, 114>>                      \* "other"
S_nul4 == <<0, 0, 0, 0>>                                    \* "\0\0\0\0"

Leaves == {Null, Bool(TRUE), N0, N1, Half, Str(<<>>), Str(S_x)}

Nested == {Arr(<<>>), Arr(<< Half >>), Obj(<<>>), MkObj(<< << S_a, Str(S_x) >> >>)}

Items == Leaves \cup Nested

Keys == {<<>>, S_a}

SeqsUpTo(S, n) == UNION {[1..k -> S] : k \in 0..n}

Lists == {Arr(items) : items \in SeqsUpTo(Items, MaxLen)}

Maps ==
  {MkObj([i \in 1..Len(ks) |-> << ks[i], vs[i] >>]) :
     <<ks, vs>> \in {p \in SeqsUpTo(Keys, MaxLen) \X SeqsUpTo(Items, MaxLen) :
                      /\ Len(p[1]) = Len(p[2])
                      /\ \A i, j \in 1..Len(p[1]) : i # j => p[1][i] # p[1][j]}}

\* List([Map({"a": 1, "b": "x"})])
ScenarioValue == Arr(<< MkObj(<< << S_a, N1 >>, << S_b, Str(S_x) >> >>) >>)

\* {"data": [1, 2], "traceback": ["oops"]} and {"other": 1}
EnvelopeBoth ==
  MkObj(<< << K_data, Arr(<< N1, N2 >>) >>,
           << K_traceback, Arr(<< Str(S_oops) >>) >> >>)
EnvelopeOther == MkObj(<< << S_other, N1 >> >>)

\* envelopes without Bool or Int32 values
EnvelopeHalf ==
  MkObj(<< << K_data, Arr(<< Half >>) >>,
           << K_traceback, Arr(<< Str(S_x) >>) >> >>)
EnvelopeDataOnly == MkObj(<< << K_data, Arr(<< Str(S_x), Null >>) >> >>)
EnvelopeNotLists ==
  MkObj(<< << K_data, Str(S_x) >>, << K_traceback, Obj(<<>>) >> >>)

\* [1, null, "\0\0\0\0"]
NulTextList == Arr(<< N1, Null, Str(S_nul4) >>)

\* {"__zunType": null, "a": null}
MarkerKeyMap == MkObj(<< << K_zunType, Null >>, << S_a, Null >> >>)

\* {"\u00e9": "\u20ac"}: a key and a text of several bytes per character
AccentMap == MkObj(<< << <<233>>, Str(<<8364>>) >> >>)

\* integers around the limits of the signed 32-bit range: the sign and the
\* magnitude hi * 65536 + lo of each, with the bits of its double
IntegerSamples ==
  { [neg |-> FALSE, hi |-> 0, lo |-> 0,
     f64 |-> << 0, 0, 0, 0, 0, 0, 0, 0 >>],                  \* 0
    [neg |-> TRUE, hi |-> 0, lo |-> 0,
     f64 |-> << 128, 0, 0, 0, 0, 0, 0, 0 >>],                \* -0
    [neg |-> FALSE, hi |-> 0, lo |-> 1,
     f64 |-> << 63, 240, 0, 0, 0, 0, 0, 0 >>],               \* 1
    [neg |-> TRUE, hi |-> 0, lo |-> 1,
     f64 |-> << 191, 240, 0, 0, 0, 0, 0, 0 >>],              \* -1
    [neg |-> FALSE, hi |-> 0, lo |-> 255,
     f64 |-> << 64, 111, 224, 0, 0, 0, 0, 0 >>],             \* 255
    [neg |-> TRUE, hi |-> 0, lo |-> 256,
     f64 |-> << 192, 112, 0, 0, 0, 0, 0, 0 >>],              \* -256
    [neg |-> FALSE, hi |-> 1, lo |-> 0,
     f64 |-> << 64, 240, 0, 0, 0, 0, 0, 0 >>],               \* 65536
    [neg |-> FALSE, hi |-> 32767, lo |-> 65534,
     f64 |-> << 65, 223, 255, 255, 255, 128, 0, 0 >>],       \* 2147483646
    [neg |-> FALSE, hi |-> 32767, lo |-> 65535,
     f64 |-> << 65, 223, 255, 255, 255, 192, 0, 0 >>],       \* 2147483647
    [neg |-> FALSE, hi |-> 32768, lo |-> 0,
     f64 |-> << 65, 224, 0, 0, 0, 0, 0, 0 >>],               \* 2147483648
    [neg |-> TRUE, hi |-> 32767, lo |-> 65535,
     f64 |-> << 193, 223, 255, 255, 255, 192, 0, 0 >>],      \* -2147483647
    [neg |-> TRUE, hi |-> 32768, lo |-> 0,
     f64 |-> << 193, 224, 0, 0, 0, 0, 0, 0 >>],              \* -2147483648
    [neg |-> TRUE, hi |-> 32768, lo |-> 1,
     f64 |-> << 193, 224, 0, 0, 0, 32, 0, 0 >>],             \* -2147483649
    [neg |-> FALSE, hi |-> 65535, lo |-> 65535,
     f64 |-> << 65, 239, 255, 255, 255, 224, 0, 0 >>],       \* 4294967295
    [neg |-> FALSE, hi |-> 65536, lo |-> 0,
     f64 |-> << 65, 240, 0, 0, 0, 0, 0, 0 >>] }              \* 4294967296

\* a list holding one of the integers
NumberList(n) == Arr(<< Num(n.f64) >>)
NumberLists == {NumberList(n) : n \in IntegerSamples}

\* a map whose entries are set in the order "2", "1", and one set in the
\* order "b", "a"
IntegerKeyPairs == << << <<50>>, Str(S_x) >>, << <<49>>, Null >> >>
LetterKeyPairs == << << S_b, Str(S_x) >>, << S_a, Null >> >>

Scenarios ==
  {ScenarioValue, EnvelopeBoth, EnvelopeOther, EnvelopeHalf, EnvelopeDataOnly,
   EnvelopeNotLists, NulTextList, MarkerKeyMap, AccentMap,
   MkObj(IntegerKeyPairs), MkObj(LetterKeyPairs)}

\* data?: ZunArray and traceback?: ZunArray
OptionalLists == {Undefined, Arr(<<>>), Arr(<< Half >>), Arr(<< Str(S_x), Null >>)}
ResponseCalls ==
  {ResponseArgs(data, traceback) : data \in OptionalLists, traceback \in OptionalLists}

Inputs ==
  Lists \cup Maps \cup Scenarios \cup NumberLists \cup Leaves \cup {Undefined}

\* 01 00000001 02 00000001 0001 'a' 02 00000001 0001 'b' 04 00000001 'x'
ScenarioBytes ==
  << 1, 0, 0, 0, 1, 2, 0, 0, 0, 1, 0, 1, 97, 2, 0, 0, 0, 1, 0, 1, 98,
     4, 0, 0, 0, 1, 120 >>

\* buffers whose first byte is a primitive's tag: 0.5, "x" and ""
PrimitiveBuffers ==
  { << 3, 63, 224, 0, 0, 0, 0, 0, 0 >>, << 4, 0, 0, 0, 1, 120 >>,
    << 4, 0, 0, 0, 0 >> }

\* maps no encoder produces, with a key in several entries:
\* 02 00000003 0001 'a' 04 00000001 'x' 0001 'b' 00 0001 'a' 03 <0.5>
DuplicateKeyBytes ==
  << 2, 0, 0, 0, 3, 0, 1, 97, 4, 0, 0, 0, 1, 120, 0, 1, 98, 0,
     0, 1, 97, 3, 63, 224, 0, 0, 0, 0, 0, 0 >>

\* 02 00000002 0009 '__proto__' 04 00000001 'x' 0009 '__proto__' 04 00000000
DuplicateProtoBytes ==
  << 2, 0, 0, 0, 2, 0, 9, 95, 95, 112, 114, 111, 116, 111, 95, 95,
     4, 0, 0, 0, 1, 120, 0, 9, 95, 95, 112, 114, 111, 116, 111, 95, 95,
     4, 0, 0, 0, 0 >>

\* 02 00000002 0001 '2' 04 00000001 'x' 0001 '1' 00
IntegerKeyBytes ==
  << 2, 0, 0, 0, 2, 0, 1, 50, 4, 0, 0, 0, 1, 120, 0, 1, 49, 0 >>

WireScenarios ==
  {ScenarioBytes, DuplicateKeyBytes, DuplicateProtoBytes, IntegerKeyBytes}

RawBytes == {0, 1, 2, 255}
RawBuffers ==
  SeqsUpTo(RawBytes, MaxRaw) \cup WireScenarios \cup PrimitiveBuffers

Prefixes(bytes) == {SubSeq(bytes, 1, n) : n \in 0..Len(bytes)}

(***************************************************************************)
(* Init                                                                    *)
(***************************************************************************)
\* nothing was encoded, decoded or requested yet
Untouched ==
  /\ encoded = NotEncoded
  /\ buffer = <<>>
  /\ offset = 0
  /\ pc = "idle"
  /\ stack = <<>>
  /\ type = -1
  /\ len = 0
  /\ call = "none"
  /\ result = NotRun
  /\ decoded = NotRun
  /\ response = NotRun
  /\ cpc = "idle"
  /\ request = NoRequest
  /\ http = NoResponse
  /\ timer = "unset"
  /\ outcome = Pending
  /\ prior = NoPrior
  /\ lastRateLimitInfo = Undefined

Init ==
  /\ root \in Inputs \cup ResponseCalls \cup {NoValue}
  /\ Untouched
  /\ apiKey = Undefined
  /\ customHeaders = Obj(<<>>)
  /\ calls = << >>
  /\ server = {}

(***************************************************************************)
(* ZunEncoder.encode(root)                                                 *)
(***************************************************************************)
EncodeCall ==
  /\ root.t \notin {"none", "encodeResponse"}
  /\ encoded = NotEncoded
  /\ encoded' = Encode(root)
  /\ UNCHANGED << client, prior, root, buffer, offset, pc, stack, type, len, call, result,
                  decoded, response >>

(***************************************************************************)
(* ZunEncoder.encodeResponse(root.data, root.traceback)                    *)
(***************************************************************************)
EncodeResponseCall ==
  /\ root.t = "encodeResponse"
  /\ encoded = NotEncoded
  /\ encoded' = EncodeResponse(root.data, root.traceback)
  /\ UNCHANGED << client, prior, root, buffer, offset, pc, stack, type, len, call, result,
                  decoded, response >>

(***************************************************************************)
(* ZunDecoder: constructor and static entry points                         *)
(***************************************************************************)
\* the buffers handed to the decoder: the encoder's output or a prefix of
\* it, or bytes that no encoder produced
Received ==
  IF root = NoValue THEN RawBuffers
  ELSE IF encoded.ok THEN Prefixes(encoded.bytes) ELSE {}

\* new ZunDecoder(buf)
NewDecoder(buf) ==
  /\ buffer' = buf
  /\ offset' = 0
  /\ pc' = "decodeValue"
  /\ stack' = <<>>
  /\ type' = -1
  /\ len' = 0
  /\ result' = NotRun

\* ZunDecoder.decode(buf) is entered
DecodeCall ==
  /\ call = "none"
  /\ \E buf \in Received : NewDecoder(buf)
  /\ call' = "decode"
  /\ UNCHANGED << client, prior, root, encoded, decoded, response >>

\* a decode that fails whenever bytes are left after the value
DecodeReturn_RejectTrailing ==
  /\ call = "decode"
  /\ pc \in {"done", "error"}
  /\ decoded' = IF offset < Len(buffer) THEN Thrown(BufferUnderrun) ELSE result
  /\ call' = "decoded"
  /\ UNCHANGED << client, prior, root, encoded, buffer, offset, pc, stack, type, len,
                  result, response >>

\* ZunDecoder.decode returns what decodeValue returned, or its exception
DecodeReturn ==
  /\ call = "decode"
  /\ pc \in {"done", "error"}
  /\ decoded' = result
  /\ call' = "decoded"
  /\ UNCHANGED << client, prior, root, encoded, buffer, offset, pc, stack, type, len,
                  result, response >>

\* the bytes that may follow a message in a buffer
Trailers == {<< b >> : b \in RawBytes} \cup {<< 1, 0, 0, 0, 0 >>, << 4, 0 >>}

\* ZunDecoder.decode is called once more, on the buffer decoded before
\* followed by more bytes
DecodeExtended ==
  /\ call = "decoded"
  /\ prior = NoPrior
  /\ \E t \in Trailers : NewDecoder(buffer \o t)
  /\ prior' = [buffer |-> buffer, offset |-> offset, outcome |-> decoded]
  /\ call' = "decode"
  /\ UNCHANGED << client, root, encoded, decoded, response >>

\* ZunDecoder.decodeResponse(buf) is entered, on the buffer decoded before
DecodeResponseCall ==
  /\ call = "decoded"
  /\ NewDecoder(buffer)
  /\ call' = "decodeResponse"
  /\ UNCHANGED << client, prior, root, encoded, decoded, response >>

Absent == Undefined
Envelope(data, traceback) == [data |-> data, traceback |-> traceback]
EmptyEnvelope == Envelope(Absent, Absent)

ResponseOf_ListAsData(value) ==
  IF value.t = "arr" THEN [data |-> value, traceback |-> Undefined]
  ELSE IF Falsy(value) \/ value.t # "obj"
    THEN [data |-> Undefined, traceback |-> Undefined]
  ELSE [data |-> IF HasProp(value, K_data) /\ GetProp(value, K_data).t = "arr"
                   THEN GetProp(value, K_data) ELSE Undefined,
        traceback |->
          IF HasProp(value, K_traceback) /\ GetProp(value, K_traceback).t = "arr"
            THEN GetProp(value, K_traceback) ELSE Undefined]

\* the part of decodeResponse after decodeValue has returned
ResponseOf(value) ==
  IF Falsy(value) \/ value.t # "obj" THEN EmptyEnvelope
  ELSE Envelope(
         IF HasProp(value, K_data) /\ GetProp(value, K_data).t = "arr"
           THEN GetProp(value, K_data) ELSE Absent,
         IF HasProp(value, K_traceback) /\ GetProp(value, K_traceback).t = "arr"
           THEN GetProp(value, K_traceback) ELSE Absent)

DecodeResponseOutcome_Swallow(res) ==
  IF res.ok THEN Returned(ResponseOf(res.value)) ELSE Returned(EmptyEnvelope)

\* the outcome of decodeResponse given the outcome of its decodeValue call
DecodeResponseOutcome(res) ==
  IF res.ok THEN Returned(ResponseOf(res.value)) ELSE res

DecodeResponseReturn ==
  /\ call = "decodeResponse"
  /\ pc \in {"done", "error"}
  /\ response' = DecodeResponseOutcome(result)
  /\ call' = "responded"
  /\ UNCHANGED << client, prior, root, encoded, buffer, offset, pc, stack, type, len,
                  result, decoded >>

(***************************************************************************)
(* ZunDecoder: decodeValue and the methods it dispatches to                *)
(***************************************************************************)
Frame(kind, n, val) == [kind |-> kind, n |-> n, i |-> 0, val |-> val, key |-> <<>>]

Top(st) == st[Len(st)]
Pop(st) == SubSeq(st, 1, Len(st) - 1)

\* a value is returned to the caller of decodeValue: the loop of the
\* innermost decodeArray / decodeObject stores it and either goes on or
\* returns its collection in turn
RECURSIVE ReturnValue(_, _)
ReturnValue(st, value) ==
  IF st = <<>> THEN [stack |-> <<>>, pc |-> "done", result |-> Returned(value)]
  ELSE
    LET f == Top(st)
        val == IF f.kind = "array"
                 THEN [f.val EXCEPT !.items = Append(f.val.items, value)]
                 ELSE ObjSet(f.val, f.key, value)
    IN  IF f.i + 1 < f.n
          THEN [stack |-> Append(Pop(st), [f EXCEPT !.i = f.i + 1, !.val = val]),
                pc |-> IF f.kind = "array" THEN "decodeValue" ELSE "readKeyLength",
                result |-> NotRun]
          ELSE ReturnValue(Pop(st), val)

Return(value) ==
  LET r == ReturnValue(stack, value)
  IN  /\ stack' = r.stack
      /\ pc' = r.pc
      /\ result' = r.result

Throw_Retry(err) == UNCHANGED << pc, result, stack >>

\* an exception unwinds every active call
Throw(err) ==
  /\ pc' = "error"
  /\ result' = Thrown(err)
  /\ UNCHANGED stack

DecodeValue ==
  /\ pc = "decodeValue"
  /\ IF offset >= Len(buffer)
       THEN /\ Throw(BufferUnderrun)
            /\ UNCHANGED << offset, type >>
       ELSE LET ty == buffer[offset + 1]
                target == SwitchTarget(ty)
            IN  /\ type' = ty
                /\ offset' = offset + 1
                /\ IF target = "default" THEN Throw(UnknownTag(ty))
                   ELSE IF target = "null" THEN Return(Null)
                   ELSE /\ pc' = target
                        /\ UNCHANGED << stack, result >>
  /\ UNCHANGED << client, prior, root, encoded, buffer, len, call, decoded, response >>

DecodeArray ==
  /\ pc = "decodeArray"
  /\ LET r == ReadUInt32BE(buffer, offset)
         arr == [Arr(<<>>) EXCEPT !.zunType = "array"]
     IN  IF ~r.ok
           THEN Throw(BufferUnderrun) /\ UNCHANGED offset
           ELSE /\ offset' = offset + r.width
                /\ IF 0 < r.value
                     THEN /\ stack' = Append(stack, Frame("array", r.value, arr))
                          /\ pc' = "decodeValue"
                          /\ UNCHANGED result
                     ELSE Return(arr)
  /\ UNCHANGED << client, prior, root, encoded, buffer, type, len, call, decoded, response >>

DecodeObject ==
  /\ pc = "decodeObject"
  /\ LET r == ReadUInt32BE(buffer, offset)
         obj == ObjSet(Obj(<<>>), K_zunType, Str(S_object))
     IN  IF ~r.ok
           THEN Throw(BufferUnderrun) /\ UNCHANGED offset
           ELSE /\ offset' = offset + r.width
                /\ IF 0 < r.value
                     THEN /\ stack' = Append(stack, Frame("object", r.value, obj))
                          /\ pc' = "readKeyLength"
                          /\ UNCHANGED result
                     ELSE Return(obj)
  /\ UNCHANGED << client, prior, root, encoded, buffer, type, len, call, decoded, response >>

\* decodeObject: const keyLength = this.readUInt16BE()
ReadKeyLength ==
  /\ pc = "readKeyLength"
  /\ LET r == ReadUInt16BE(buffer, offset)
     IN  IF ~r.ok
           THEN Throw(BufferUnderrun) /\ UNCHANGED << offset, len >>
           ELSE /\ offset' = offset + r.width
                /\ len' = r.value
                /\ pc' = "readKey"
                /\ UNCHANGED << stack, result >>
  /\ UNCHANGED << client, prior, root, encoded, buffer, type, call, decoded, response >>

\* the key decodeObject reads at the cursor
KeyAt(buf, off, keyLength) == TextDecode(Slice(buf, off, off + keyLength))

\* decodeObject: slice the key bytes, decode them, advance the cursor
ReadKey ==
  /\ pc = "readKey"
  /\ stack' = Append(Pop(stack), [Top(stack) EXCEPT !.key = KeyAt(buffer, offset, len)])
  /\ offset' = offset + len
  /\ pc' = "decodeValue"
  /\ UNCHANGED << client, prior, root, encoded, buffer, type, len, call, result, decoded,
                  response >>

\* decodeBoolean, decodeInt32, decodeDouble
FixedWidthReader(method, buf, off) ==
  CASE method = "decodeBoolean" -> DecodeBoolean(buf, off)
    [] method = "decodeInt32" -> DecodeInt32(buf, off)
    [] method = "decodeDouble" -> DecodeDouble(buf, off)

DecodeFixedWidth ==
  /\ pc \in {"decodeBoolean", "decodeInt32", "decodeDouble"}
  /\ LET r == FixedWidthReader(pc, buffer, offset)
     IN  IF ~r.ok
           THEN Throw(BufferUnderrun) /\ UNCHANGED offset
           ELSE offset' = offset + r.width /\ Return(r.value)
  /\ UNCHANGED << client, prior, root, encoded, buffer, type, len, call, decoded, response >>

\* decodeString: const length = this.readUInt32BE()
DecodeString ==
  /\ pc = "decodeString"
  /\ LET r == ReadUInt32BE(buffer, offset)
     IN  IF ~r.ok
           THEN Throw(BufferUnderrun) /\ UNCHANGED << offset, len >>
           ELSE /\ offset' = offset + r.width
                /\ len' = r.value
                /\ pc' = "readStringBytes"
                /\ UNCHANGED << stack, result >>
  /\ UNCHANGED << client, prior, root, encoded, buffer, type, call, decoded, response >>

\* decodeString: bounds check, slice, decode, advance the cursor
ReadStringBytes ==
  /\ pc = "readStringBytes"
  /\ IF len > Len(buffer) - offset
       THEN Throw(BufferUnderrun) /\ UNCHANGED offset
       ELSE /\ offset' = offset + len
            /\ Return(Str(TextDecode(Slice(buffer, offset, offset + len))))
  /\ UNCHANGED << client, prior, root, encoded, buffer, type, len, call, decoded, response >>

Next ==
  \/ EncodeCall
  \/ EncodeResponseCall
  \/ DecodeCall
  \/ DecodeReturn
  \/ DecodeResponseCall
  \/ DecodeResponseReturn
  \/ DecodeValue
  \/ DecodeArray
  \/ DecodeObject
  \/ ReadKeyLength
  \/ ReadKey
  \/ DecodeFixedWidth
  \/ DecodeString
  \/ ReadStringBytes

Spec == Init /\ [][Next]_vars

\* the steps of one synchronous call of decodeValue: the methods call each
\* other directly, so a decode that has not returned or thrown goes on
DecoderStep ==
  \/ DecodeValue
  \/ DecodeArray
  \/ DecodeObject
  \/ ReadKeyLength
  \/ ReadKey
  \/ DecodeFixedWidth
  \/ DecodeString
  \/ ReadStringBytes

FairSpec == Spec /\ WF_vars(DecoderStep)

(***************************************************************************)
(* The encoder alone, also on maps whose key does not fit the 16-bit       *)
(* length field                                                            *)
(***************************************************************************)
\* a key of n letters 'a'
LongKey(n) == [i \in 1..n |-> 97]

LongKeyLengths == {255, 256, 65535, 65536, 65537}

\* Map({"aaa...a": null})
LongKeyMaps == {MkObj(<< << LongKey(n), Null >> >>) : n \in LongKeyLengths}

EncoderInit ==
  /\ root \in Inputs \cup ResponseCalls \cup LongKeyMaps
  /\ Untouched
  /\ apiKey = Undefined
  /\ customHeaders = Obj(<<>>)
  /\ calls = << >>
  /\ server = {}

EncoderNext ==
  \/ EncodeCall
  \/ EncodeResponseCall

EncoderSpec == EncoderInit /\ [][EncoderNext]_vars

(***************************************************************************)
(* The decoder on a buffer and then on that buffer followed by more bytes  *)
(***************************************************************************)
TrailingInit ==
  /\ Init
  /\ root = NoValue

TrailingNext ==
  \/ DecodeCall
  \/ DecoderStep
  \/ DecodeReturn
  \/ DecodeExtended

TrailingSpec == TrailingInit /\ [][TrailingNext]_vars

(***************************************************************************)
(* ZetrafiClient.zunRequest (src/unnamed/part_000)                         *)
(***************************************************************************)
MaxBody == 3

K_toString == <<116, 111, 83, 116, 114, 105, 110, 103>>      \* "toString"
S_key == <<107, 101, 121>>                                   \* "key"

\* obj[name] is a function: Object.prototype supplies toString and valueOf,
\* and a property created by decodeObject holds a ZunValue, which is never
\* callable.  (A prototype chain through a list is not among the explored
\* bodies.)
RECURSIVE FindsMethod(_, _)
FindsMethod(o, name) ==
  CASE o.t = "Object.prototype" -> TRUE
    [] o.t = "null" -> FALSE
    [] o.t = "obj" -> IF HasOwn(o, name) THEN FALSE ELSE FindsMethod(o.proto, name)

\* String(v) throws a TypeError: an object converts through its toString
\* method, then through valueOf, which returns the object itself; a list
\* joins the conversions of its items, null and undefined giving ""
RECURSIVE StringThrows(_)
StringThrows(v) ==
  IF v.t = "obj" THEN ~FindsMethod(v, K_toString)
  ELSE IF v.t = "arr"
    THEN \E i \in 1..Len(v.items) :
           v.items[i].t \notin {"null", "undefined"} /\ StringThrows(v.items[i])
  ELSE FALSE

\* what zunRequest returns or throws
ReturnedResponse(zunResponse) ==
  [kind |-> "returned", name |-> "", code |-> "", statusCode |-> 0,
   message |-> "", details |-> Undefined, value |-> zunResponse]
Rejected(name, message, code, statusCode, details) ==
  [kind |-> "thrown", name |-> name, code |-> code, statusCode |-> statusCode,
   message |-> message, details |-> details, value |-> EmptyEnvelope]

\* the error classes (src/src/errors.ts) and the errors of the platform
ZetrafiError(message, code, statusCode, details) ==
  Rejected("ZetrafiError", message, code, statusCode, details)
AuthenticationError(message) ==
  Rejected("AuthenticationError", message, "AUTHENTICATION_ERROR", 401, Undefined)
ForbiddenError(message) ==
  Rejected("ForbiddenError", message, "FORBIDDEN", 403, Undefined)
PlainError(name, message) == Rejected(name, message, "", 0, Undefined)

\* error instanceof ZetrafiError
IsZetrafiError(err) ==
  err.name \in {"ZetrafiError", "AuthenticationError", "ForbiddenError",
                "RateLimitError", "NotFoundError", "IpRestrictionError"}

\* a catch clause that takes the abort for a network failure
Caught_AbortIsNetworkError(err) ==
  IF IsZetrafiError(err) THEN err
  ELSE ZetrafiError(err.message, "NETWORK_ERROR", 0, Undefined)

\* the catch clause of zunRequest and of request
Caught(err) ==
  IF IsZetrafiError(err) THEN err
  ELSE IF err.name = "AbortError"
    THEN ZetrafiError("Request timeout", "TIMEOUT", 408, Undefined)
  ELSE ZetrafiError(err.message, "NETWORK_ERROR", 0, Undefined)

\* the error a failed decode throws
DecodeError(res) == PlainError("Error", res.error.msg)

\* status 403: the body is decoded and a ForbiddenError is thrown
On403(res) ==
  IF ~res.ok THEN DecodeError(res)
  ELSE IF res.value.t = "arr" /\ Len(res.value.items) = 0
    THEN ForbiddenError("Invalid API key or access denied")
  ELSE ForbiddenError("Access denied")

On200_ReturnsEmptyData(res) ==
  IF ~res.ok THEN DecodeError(res)
  ELSE ReturnedResponse(res.value)

\* status 200: the body is decoded as a response envelope
On200(res) ==
  IF ~res.ok THEN DecodeError(res)
  ELSE
    LET zunResponse == res.value
        data == zunResponse.data
        traceback == zunResponse.traceback
    IN  IF Falsy(data) \/ Len(data.items) = 0
          THEN IF ~Falsy(traceback) /\ Len(traceback.items) > 0
                 THEN IF \E i \in 1..Len(traceback.items) :
                           StringThrows(traceback.items[i])
                        THEN PlainError("TypeError",
                               "Cannot convert object to primitive value")
                        ELSE ZetrafiError("ZUN runtime error", "ZUN_RUNTIME_ERROR",
                                          500, traceback)
                 ELSE ZetrafiError("ZUN request failed", "ZUN_REQUEST_FAILED",
                                   500, Undefined)
          ELSE ReturnedResponse(zunResponse)

\* the arguments of zunRequest: lists of the callers; the last one holds a
\* parameter object with an optional field left undefined
RequestData ==
  { Arr(<<>>), Arr(<< MkObj(<< << S_a, Str(S_x) >> >>) >>), Arr(<< N1, Half >>),
    Arr(<< MkObj(<< << S_a, Undefined >> >>) >>) }

\* this.apiKey: unset, empty, or a key
ApiKeys == {Undefined, Str(<<>>), Str(S_key)}

K_Authorization == << 65, 117, 116, 104, 111, 114, 105, 122, 97, 116, 105, 111, 110 >>   \* "Authorization"
K_ContentType == << 67, 111, 110, 116, 101, 110, 116, 45, 84, 121, 112, 101 >>   \* "Content-Type"
K_Version == << 88, 45, 90, 101, 116, 114, 97, 102, 105, 45, 86, 101, 114, 115, 105, 111, 110 >>   \* "X-Zetrafi-Version"
S_Bearer == << 66, 101, 97, 114, 101, 114, 32 >>   \* "Bearer "
S_octet == << 97, 112, 112, 108, 105, 99, 97, 116, 105, 111, 110, 47, 111, 99, 116, 101, 116, 45, 115, 116, 114, 101, 97, 109 >>   \* "application/octet-stream"
S_json == << 97, 112, 112, 108, 105, 99, 97, 116, 105, 111, 110, 47, 106, 115, 111, 110 >>   \* "application/json"
S_v1 == << 118, 49 >>   \* "v1"
S_custom == << 66, 97, 115, 105, 99, 32, 97, 98, 99 >>   \* "Basic abc"

\* the values of config.headers: none, or a custom Authorization header
CustomHeaders == {Obj(<<>>), MkObj(<< << K_Authorization, Str(S_custom) >> >>)}

\* `Bearer ${this.apiKey}`
BearerOf(key) == Str(S_Bearer \o key.s)

\* { ...target, ...source }
Spread(target, source) == ObjFrom(target, source.props)

\* the headers of zunRequest
ZunHeaders(key, custom) ==
  Spread(MkObj(<< << K_ContentType, Str(S_octet) >>,
                  << K_Authorization, BearerOf(key) >> >>), custom)

Statuses == {200, 403, 500}

\* {"traceback": [{"toString": null}]} and {"traceback": [{"a": "x"}, null]}
TracebackOfToString ==
  MkObj(<< << K_traceback, Arr(<< MkObj(<< << K_toString, Null >> >>) >>) >> >>)
TracebackOfMap ==
  MkObj(<< << K_traceback, Arr(<< MkObj(<< << S_a, Str(S_x) >> >>), Null >>) >> >>)

\* the response bodies a server may send
ResponseBodies ==
  SeqsUpTo(RawBytes, MaxBody) \cup PrimitiveBuffers
    \cup {Encode(v).bytes :
            v \in {EnvelopeBoth, EnvelopeHalf, EnvelopeDataOnly, EnvelopeNotLists,
                   EnvelopeOther, TracebackOfToString, TracebackOfMap,
                   Arr(<< Half >>)}}
    \cup {EncodeResponse(data, traceback).bytes :
            data \in OptionalLists, traceback \in OptionalLists}

\* new ZetrafiClient(config)
Constructed ==
  /\ Untouched
  /\ customHeaders \in CustomHeaders

ClientInit ==
  /\ root \in RequestData
  /\ apiKey \in ApiKeys
  /\ Constructed
  /\ calls = << >>
  /\ server = ResponseBodies

decoder ==
  << buffer, offset, pc, stack, type, len, call, result, decoded, response, prior >>

\* zunRequest(endpoint, root) up to the try block: the API key is required,
\* the data is encoded, the timeout is armed
ZunRequestCall ==
  /\ cpc = "idle"
  /\ IF Falsy(apiKey)
       THEN /\ outcome' = AuthenticationError(
                            "API key is required for ZUN protocol. Use setApiKey() first.")
            /\ cpc' = "thrown"
            /\ UNCHANGED << encoded, timer >>
       ELSE LET requestBuffer == EncodeArray(root)
            IN  /\ encoded' = requestBuffer
                /\ IF requestBuffer.ok
                     THEN /\ timer' = "armed"
                          /\ cpc' = "try"
                          /\ UNCHANGED outcome
                     ELSE /\ outcome' = PlainError("Error", requestBuffer.error)
                          /\ cpc' = "thrown"
                          /\ UNCHANGED timer
  /\ UNCHANGED << decoder, session, root, apiKey, request, http >>

\* zunRequest runs synchronously from its entry to the call of fetch, and
\* from the arrival of the body to its return; nothing else runs meanwhile
ZunBusy == cpc \in {"try", "decoding"}

\* neither a global fetch nor node-fetch is there
FetchUnavailable ==
  /\ cpc = "try"
  /\ outcome' = Caught(ZetrafiError(
                  "fetch is not available. Install node-fetch or use a fetch polyfill.",
                  "FETCH_NOT_AVAILABLE", 0, Undefined))
  /\ timer' = "cleared"
  /\ cpc' = "thrown"
  /\ UNCHANGED << decoder, session, root, encoded, apiKey, request, http >>

\* fetchFn(url, { method: 'POST', headers, body, signal })
CallFetch ==
  /\ cpc = "try"
  /\ request' = [method |-> "POST", body |-> encoded.bytes,
                  headers |-> ZunHeaders(apiKey, customHeaders)]
  /\ cpc' = "fetch"
  /\ UNCHANGED << decoder, session, root, encoded, apiKey, http, timer, outcome >>

\* fetch resolves with a response: the timeout is cleared; a status other
\* than 403 and 200 is thrown as ZUN_ERROR
FetchResolve ==
  /\ cpc = "fetch"
  /\ timer = "armed"
  /\ \E status \in Statuses, body \in server :
       /\ http' = [status |-> status, body |-> body]
       /\ IF status \in {403, 200}
            THEN cpc' = "body" /\ UNCHANGED outcome
            ELSE /\ outcome' = Caught(ZetrafiError("Unexpected status code",
                                                   "ZUN_ERROR", status, Undefined))
                 /\ cpc' = "thrown"
  /\ timer' = "cleared"
  /\ UNCHANGED << decoder, session, root, encoded, apiKey, request >>

\* a catch clause that leaves the timeout armed
FetchReject_KeepsTimer ==
  /\ cpc = "fetch"
  /\ timer = "armed"
  /\ outcome' = Caught(PlainError("TypeError", "fetch failed"))
  /\ cpc' = "thrown"
  /\ UNCHANGED << decoder, session, root, encoded, apiKey, request, http, timer >>

\* fetch rejects: the network failed
FetchReject ==
  /\ cpc = "fetch"
  /\ timer = "armed"
  /\ outcome' = Caught(PlainError("TypeError", "fetch failed"))
  /\ timer' = "cleared"
  /\ cpc' = "thrown"
  /\ UNCHANGED << decoder, session, root, encoded, apiKey, request, http >>

\* the timeout fires: controller.abort()
TimerFires ==
  /\ ~ZunBusy
  /\ timer = "armed"
  /\ timer' = "fired"
  /\ UNCHANGED << decoder, session, root, encoded, apiKey, cpc, request, http, outcome >>

\* fetch rejects with the AbortError of the aborted signal
FetchAborted ==
  /\ cpc = "fetch"
  /\ timer = "fired"
  /\ outcome' = Caught(PlainError("AbortError", "This operation was aborted"))
  /\ cpc' = "thrown"
  /\ UNCHANGED << decoder, session, root, encoded, apiKey, request, http, timer >>

\* await response.arrayBuffer() resolves and the body is handed to
\* ZunDecoder.decode (status 403) or ZunDecoder.decodeResponse (status 200)
ReadBody ==
  /\ cpc = "body"
  /\ NewDecoder(http.body)
  /\ call' = IF http.status = 403 THEN "decode" ELSE "decodeResponse"
  /\ cpc' = "decoding"
  /\ UNCHANGED << session, prior, root, encoded, decoded, response, apiKey, request, http,
                  timer, outcome >>

\* await response.arrayBuffer() rejects
BodyFails ==
  /\ cpc = "body"
  /\ outcome' = Caught(PlainError("TypeError", "terminated"))
  /\ cpc' = "thrown"
  /\ UNCHANGED << decoder, session, root, encoded, apiKey, request, http, timer >>

\* the rest of zunRequest after the body was decoded
ZunRequestFinish ==
  /\ cpc = "decoding"
  /\ call \in {"decoded", "responded"}
  /\ LET r == IF http.status = 403 THEN On403(decoded) ELSE On200(response)
     IN  /\ outcome' = IF r.kind = "thrown" THEN Caught(r) ELSE r
         /\ cpc' = r.kind
  /\ UNCHANGED << decoder, session, root, encoded, apiKey, request, http, timer >>

ClientNext ==
  \/ ZunRequestCall
  \/ FetchUnavailable
  \/ CallFetch
  \/ FetchResolve
  \/ FetchReject
  \/ TimerFires
  \/ FetchAborted
  \/ ReadBody
  \/ BodyFails
  \/ DecodeValue
  \/ DecodeArray
  \/ DecodeObject
  \/ ReadKeyLength
  \/ ReadKey
  \/ DecodeFixedWidth
  \/ DecodeString
  \/ ReadStringBytes
  \/ DecodeReturn
  \/ DecodeResponseReturn
  \/ ZunRequestFinish

ClientSpec == ClientInit /\ [][ClientNext]_vars

(***************************************************************************)
(* ZetrafiClient.request and the API key methods                           *)
(***************************************************************************)
K_key == << 107, 101, 121 >>   \* "key"
S_new == << 110, 101, 119 >>   \* "new"
S_10 == << 49, 48 >>   \* "10"
S_0 == << 48 >>   \* "0"
S_5 == << 53 >>   \* "5"
S_20 == << 50, 48 >>   \* "20"
S_3 == << 51 >>   \* "3"
S_9 == << 57 >>   \* "9"

\* RateLimitInfo, also the details of a RateLimitError
S_commentWrite == << 99, 111, 109, 109, 101, 110, 116, 95, 119, 114, 105, 116, 101 >>   \* "comment_write"
S_restrictedWrite == << 114, 101, 115, 116, 114, 105, 99, 116, 101, 100, 95, 119, 114, 105, 116, 101 >>   \* "restricted_write"

RateLimitInfo(limit, remaining, reset, limitType) ==
  [t |-> "rate", limit |-> limit, remaining |-> remaining, reset |-> reset,
   type |-> limitType]

RateLimitError(message, limit, remaining, reset, limitType) ==
  Rejected("RateLimitError", message, "RATE_LIMIT_EXCEEDED", 429,
           RateLimitInfo(limit, remaining, reset, limitType))
NotFoundError(resource, id) ==
  Rejected("NotFoundError", resource \o " not found: " \o id, "NOT_FOUND", 404,
           Undefined)
IpRestrictionError(message) ==
  Rejected("IpRestrictionError", message, "IP_RESTRICTION", 403, Undefined)

\* parseInt(str, 10) of a string of decimal digits
RECURSIVE ParseDigits(_, _)
ParseDigits(str, n) ==
  IF str = <<>> \/ Head(str) < 48 \/ Head(str) > 57 THEN n
  ELSE ParseDigits(Tail(str), 10 * n + (Head(str) - 48))

ParseInt(str) == ParseDigits(str, 0)

\* parseRateLimitHeaders(headers, isUserAction)
ParseRateLimitHeaders(headers, isUserAction) ==
  IF ~Falsy(headers.limit) /\ ~Falsy(headers.remaining) /\ ~Falsy(headers.reset)
    THEN LET typeHeader == headers.typeHeader
             limitType ==
               IF Falsy(typeHeader)
                 THEN IF isUserAction THEN "user_action" ELSE "standard"
               ELSE IF typeHeader.s = S_commentWrite THEN "comment_write"
               ELSE IF typeHeader.s = S_restrictedWrite THEN "restricted_write"
               ELSE IF isUserAction THEN "user_action" ELSE "standard"
         IN  RateLimitInfo(ParseInt(headers.limit.s), ParseInt(headers.remaining.s),
                           ParseInt(headers.reset.s), limitType)
    ELSE Undefined

\* a || b on strings
OrElse(a, b) == IF a # "" THEN a ELSE b

\* rateLimit?.limit || 0 and its like
LimitOrZero(rateLimit) ==
  IF rateLimit.t = "undefined" THEN 0 ELSE rateLimit.limit
RemainingOrZero(rateLimit) ==
  IF rateLimit.t = "undefined" THEN 0 ELSE rateLimit.remaining
ResetOrZero(rateLimit) ==
  IF rateLimit.t = "undefined" THEN 0 ELSE rateLimit.reset
TypeOrStandard(rateLimit) ==
  IF rateLimit.t = "undefined" THEN "standard" ELSE rateLimit.type

\* handleErrorResponse(status, data), with this.lastRateLimitInfo as it is
\* at the call
HandleErrorResponse(status, data, rateLimit) ==
  LET message == OrElse(data.message, OrElse(data.error, "Unknown error"))
  IN  CASE status = 401 -> AuthenticationError(message)
        [] status = 403 -> IF data.error = "IP_RESTRICTION"
                             THEN IpRestrictionError(message)
                             ELSE ForbiddenError(message)
        [] status = 404 -> NotFoundError("Resource", message)
        [] status = 429 -> RateLimitError(message, LimitOrZero(rateLimit),
                                          RemainingOrZero(rateLimit),
                                          ResetOrZero(rateLimit),
                                          TypeOrStandard(rateLimit))
        [] OTHER -> ZetrafiError(message, OrElse(data.error, "UNKNOWN_ERROR"),
                                 status, Undefined)

\* the headers of request
RequestHeaders(key, custom, requiresAuth) ==
  LET headers == Spread(MkObj(<< << K_ContentType, Str(S_json) >>,
                                 << K_Version, Str(S_v1) >> >>), custom)
  IN  IF requiresAuth THEN ObjSet(headers, K_Authorization, BearerOf(key))
      ELSE headers

\* the methods that call request: getApiKeyInfo, requestApiKey, revokeApiKey
Ops == {"getApiKeyInfo", "requestApiKey", "revokeApiKey"}

\* options.requiresAuth, true unless requestApiKey passes false
RequiresAuth(op) == op # "requestApiKey"

\* options.method
Method(op) ==
  CASE op = "requestApiKey" -> "POST"
    [] op = "revokeApiKey" -> "DELETE"
    [] OTHER -> "GET"

\* response.ok
ResponseOk(status) == status >= 200 /\ status <= 299

\* the responses of the JSON endpoints
HeadersA == RateLimitHeaders(Str(S_10), Str(S_0), Str(S_5), Null)
HeadersB == RateLimitHeaders(Str(S_20), Str(S_3), Str(S_9), Null)
JsonKey == [message |-> "", error |-> "", data |-> MkObj(<< << K_key, Str(S_new) >> >>)]
JsonError == [message |-> "Too many requests", error |-> "", data |-> Undefined]
ApiResponses ==
  { [status |-> 200, headers |-> NoRateLimitHeaders, json |-> JsonKey],
    [status |-> 200, headers |-> HeadersA, json |-> NoJson],
    [status |-> 429, headers |-> HeadersA, json |-> JsonError],
    [status |-> 429, headers |-> HeadersB, json |-> JsonError],
    [status |-> 429, headers |-> NoRateLimitHeaders, json |-> JsonError] }

\* the callers of the JSON endpoints
Callers == {1, 2}

\* the rest of the state is left alone by a step of a call of request
ZunCall == << root, encoded, cpc, request, http, timer, outcome, customHeaders,
              server >>

\* op() calls request(endpoint, options): the headers are built, the API key
\* is required when requiresAuth, the timeout is armed and fetch is called
RequestCall(c) ==
  /\ ~ZunBusy
  /\ calls[c].at = "idle"
  /\ \E op \in Ops, available \in BOOLEAN :
       calls' = [calls EXCEPT ![c] =
         IF RequiresAuth(op) /\ Falsy(apiKey)
           THEN [@ EXCEPT !.op = op, !.at = "thrown",
                          !.outcome = AuthenticationError(
                            "API key is required. Use requestApiKey() or setApiKey() first.")]
         ELSE IF ~available
           THEN [@ EXCEPT !.op = op, !.at = "thrown", !.timer = "cleared",
                          !.outcome = Caught(ZetrafiError(
                            "fetch is not available. Install node-fetch or use a fetch polyfill.",
                            "FETCH_NOT_AVAILABLE", 0, Undefined))]
         ELSE [@ EXCEPT !.op = op, !.at = "fetch", !.timer = "armed",
                        !.request = [method |-> Method(op), body |-> <<>>,
                                     headers |-> RequestHeaders(apiKey, customHeaders,
                                                                RequiresAuth(op))]]]
  /\ UNCHANGED << decoder, ZunCall, apiKey, lastRateLimitInfo >>

\* fetch resolves with a response: the timeout is cleared and the rate-limit
\* headers are parsed into this.lastRateLimitInfo
RequestResolve(c) ==
  /\ ~ZunBusy
  /\ calls[c].at = "fetch"
  /\ calls[c].timer = "armed"
  /\ \E res \in ApiResponses :
       /\ calls' = [calls EXCEPT ![c] =
                      [@ EXCEPT !.http = res, !.timer = "cleared", !.at = "json"]]
       /\ lastRateLimitInfo' = ParseRateLimitHeaders(res.headers, FALSE)
  /\ UNCHANGED << decoder, ZunCall, apiKey >>

\* fetch rejects: the network failed
RequestReject(c) ==
  /\ ~ZunBusy
  /\ calls[c].at = "fetch"
  /\ calls[c].timer = "armed"
  /\ calls' = [calls EXCEPT ![c] =
                 [@ EXCEPT !.timer = "cleared", !.at = "thrown",
                           !.outcome = Caught(PlainError("TypeError", "fetch failed"))]]
  /\ UNCHANGED << decoder, ZunCall, apiKey, lastRateLimitInfo >>

\* the timeout fires: controller.abort()
RequestTimerFires(c) ==
  /\ ~ZunBusy
  /\ calls[c].timer = "armed"
  /\ calls' = [calls EXCEPT ![c] = [@ EXCEPT !.timer = "fired"]]
  /\ UNCHANGED << decoder, ZunCall, apiKey, lastRateLimitInfo >>

\* fetch rejects with the AbortError of the aborted signal
RequestAborted(c) ==
  /\ ~ZunBusy
  /\ calls[c].at = "fetch"
  /\ calls[c].timer = "fired"
  /\ calls' = [calls EXCEPT ![c] =
                 [@ EXCEPT !.at = "thrown",
                           !.outcome = Caught(PlainError("AbortError",
                                                         "This operation was aborted"))]]
  /\ UNCHANGED << decoder, ZunCall, apiKey, lastRateLimitInfo >>

\* await response.json() resolves: a response that is not ok is handed to
\* handleErrorResponse, the data of any other is returned
RequestJson(c) ==
  /\ ~ZunBusy
  /\ calls[c].at = "json"
  /\ LET res == calls[c].http
     IN  calls' = [calls EXCEPT ![c] =
           IF ~ResponseOk(res.status)
             THEN [@ EXCEPT !.at = "thrown",
                            !.outcome = Caught(HandleErrorResponse(
                                          res.status, res.json, lastRateLimitInfo))]
             ELSE [@ EXCEPT !.at = "returned",
                            !.outcome = ReturnedResponse(
                              [data |-> res.json.data, traceback |-> Undefined])]]
  /\ UNCHANGED << decoder, ZunCall, apiKey, lastRateLimitInfo >>

\* await response.json() rejects: the body is no JSON
RequestJsonFails(c) ==
  /\ ~ZunBusy
  /\ calls[c].at = "json"
  /\ calls' = [calls EXCEPT ![c] =
                 [@ EXCEPT !.at = "thrown",
                           !.outcome = Caught(PlainError("SyntaxError",
                                                         "Unexpected end of JSON input"))]]
  /\ UNCHANGED << decoder, ZunCall, apiKey, lastRateLimitInfo >>

\* a revoke that forgets the key although the request failed
RevokeApiKeyFinish_Always(c) ==
  /\ ~ZunBusy
  /\ calls[c].op = "revokeApiKey"
  /\ calls[c].at \in {"returned", "thrown"}
  /\ apiKey' = Undefined
  /\ calls' = [calls EXCEPT ![c] = [@ EXCEPT !.at = "done"]]
  /\ UNCHANGED << decoder, ZunCall, lastRateLimitInfo >>

\* revokeApiKey after its request returned: this.apiKey = undefined
RevokeApiKeyFinish(c) ==
  /\ ~ZunBusy
  /\ calls[c].op = "revokeApiKey"
  /\ calls[c].at = "returned"
  /\ apiKey' = Undefined
  /\ calls' = [calls EXCEPT ![c] = [@ EXCEPT !.at = "done"]]
  /\ UNCHANGED << decoder, ZunCall, lastRateLimitInfo >>

\* requestApiKey after its request returned:
\* if (response.data) this.apiKey = response.data.key
RequestApiKeyFinish(c) ==
  /\ ~ZunBusy
  /\ calls[c].op = "requestApiKey"
  /\ calls[c].at = "returned"
  /\ LET data == calls[c].outcome.value.data
     IN  apiKey' = IF Falsy(data) THEN apiKey ELSE GetProp(data, K_key)
  /\ calls' = [calls EXCEPT ![c] = [@ EXCEPT !.at = "done"]]
  /\ UNCHANGED << decoder, ZunCall, lastRateLimitInfo >>

\* setApiKey(key)
SetApiKey ==
  /\ ~ZunBusy
  /\ \E key \in {Str(S_key)} : apiKey' = key
  /\ UNCHANGED << decoder, ZunCall, lastRateLimitInfo, calls >>

\* the bodies of the ZUN endpoint: an empty list, and a map holding a list
\* of a string and a number
ZunBodies ==
  { << 1, 0, 0, 0, 0 >>,
    Encode(MkObj(<< << K_data, Arr(<< Str(S_x), Half >>) >> >>)).bytes }

ApiInit ==
  /\ root = Arr(<<>>)
  /\ apiKey \in {Undefined, Str(S_key)}
  /\ Constructed
  /\ calls = [c \in Callers |-> NoCall]
  /\ server = ZunBodies

ApiNext ==
  \/ ClientNext
  \/ \E c \in DOMAIN calls : RequestCall(c)
  \/ \E c \in DOMAIN calls : RequestResolve(c)
  \/ \E c \in DOMAIN calls : RequestReject(c)
  \/ \E c \in DOMAIN calls : RequestTimerFires(c)
  \/ \E c \in DOMAIN calls : RequestAborted(c)
  \/ \E c \in DOMAIN calls : RequestJson(c)
  \/ \E c \in DOMAIN calls : RequestJsonFails(c)
  \/ \E c \in DOMAIN calls : RevokeApiKeyFinish(c)
  \/ \E c \in DOMAIN calls : RequestApiKeyFinish(c)
  \/ SetApiKey

ApiSpec == ApiInit /\ [][ApiNext]_vars

(***************************************************************************)
(* Properties                                                              *)
(***************************************************************************)
\* a decoded value without the __zunType markers decodeArray and
\* decodeObject attach to the collections they build
RECURSIVE Unmarked(_)
Unmarked(value) ==
  IF value.t = "arr"
    THEN [t |-> "arr", items |-> [i \in 1..Len(value.items) |-> Unmarked(value.items[i])],
          zunType |-> ""]
  ELSE IF value.t = "obj"
    THEN LET kept == SelectSeq(value.props,
                       LAMBDA e : ~(e[1] = K_zunType /\ e[2] = Str(S_object)))
         IN  [t |-> "obj",
              props |-> [i \in 1..Len(kept) |-> << kept[i][1], Unmarked(kept[i][2]) >>],
              proto |-> Unmarked(value.proto)]
  ELSE value

IsCollection(value) == value.t \in {"arr", "obj"}

\* the whole output of a successful encode was handed to the decoder
FullBuffer == encoded.ok /\ buffer = encoded.bytes

\* big-endian fields as the wire format defines them
WireU16(n) == << n \div 256, n % 256 >>
WireU32(n) == << n \div 16777216, (n \div 65536) % 256, (n \div 256) % 256, n % 256 >>

\* C1: decode(encode(v)) succeeds and returns a value equal to v, map entries
\* in the same order, for every List or Map v.
C1_RoundTrip ==
  (call = "decoded" /\ IsCollection(root) /\ FullBuffer)
    => (decoded.ok /\ Unmarked(decoded.value) = root)

\* C2: at value position the type byte selects the primitive reader:
\* 0x01 a Bool, 0x02 an Int32, 0x03 a Float64, 0x04 a Text.
C2_ValueDispatch ==
  (stack # <<>> /\ pc \in {"decodeArray", "decodeObject", "decodeBoolean",
                           "decodeInt32", "decodeDouble", "decodeString"})
    => pc = (CASE type = 1 -> "decodeBoolean"
               [] type = 2 -> "decodeInt32"
               [] type = 3 -> "decodeDouble"
               [] type = 4 -> "decodeString"
               [] OTHER -> "none")

\* C3: decode of a strict prefix of encode(v) fails with the buffer-underrun
\* error and never returns a value.
C3_Truncation ==
  (call = "decoded" /\ IsCollection(root) /\ encoded.ok
     /\ Len(buffer) < Len(encoded.bytes))
    => (~decoded.ok /\ decoded.error = BufferUnderrun)

\* C4: the read cursor never exceeds the buffer length.
C4_CursorInBuffer == offset <= Len(buffer)

\* C5: List([Map({"a": 1, "b": "x"})]) encodes to the bytes of the scenario,
\* and decoding those bytes gives the original value back.
C5_Scenario ==
  /\ (root = ScenarioValue /\ encoded # NotEncoded) => encoded = Ok(ScenarioBytes)
  /\ (call = "decoded" /\ buffer = ScenarioBytes)
       => (decoded.ok /\ Unmarked(decoded.value) = ScenarioValue)

\* the envelope of an encoded top-level Map as C6 states it
ExpectedEnvelope(map) ==
  Envelope(IF HasOwn(map, K_data) /\ GetProp(map, K_data).t = "arr"
             THEN GetProp(map, K_data) ELSE Absent,
           IF HasOwn(map, K_traceback) /\ GetProp(map, K_traceback).t = "arr"
             THEN GetProp(map, K_traceback) ELSE Absent)

UnmarkedEnvelope(env) == Envelope(Unmarked(env.data), Unmarked(env.traceback))

\* C6: decodeResponse of an encoded top-level Map returns its "data" value iff
\* that is a List and its "traceback" value iff that is a List, and ignores
\* everything else without error.
C6_EnvelopeExtraction ==
  (call = "responded" /\ root.t = "obj" /\ FullBuffer)
    => (response.ok /\ UnmarkedEnvelope(response.value) = ExpectedEnvelope(root))

\* C7: when decode succeeds with a value that is not a Map, decodeResponse
\* returns the empty envelope and raises no error.
C7_NonMapEmptyEnvelope ==
  (call = "responded" /\ decoded.ok /\ decoded.value.t # "obj")
    => (response.ok /\ response.value = EmptyEnvelope)

C7_Witness ==
  /\ call = "responded" /\ root = Arr(<<>>) /\ FullBuffer
  /\ decoded.ok /\ decoded.value.t = "arr"
  /\ response = Returned(EmptyEnvelope)

\* C8: when decode fails on a buffer, decodeResponse fails on it with the same
\* error and returns no envelope.
C8_NoSwallow ==
  (call = "responded" /\ ~decoded.ok)
    => (~response.ok /\ response.error = decoded.error
        /\ response.value = Undefined)

C8_Witness ==
  /\ call = "responded" /\ ~decoded.ok
  /\ decoded.error = UnknownTag(255)
  /\ response = Thrown(UnknownTag(255))

\* C9: encode fails with the invalid-root error for a Null, Bool, number or
\* Text root, and returns the bytes of encodeArray / encodeObject for a List
\* or Map root.
C9_RootRule ==
  encoded # NotEncoded
    => /\ root.t \in {"null", "bool", "num", "str"} => encoded = Threw(InvalidRoot)
       /\ root.t = "arr" => encoded = EncodeArray(root)
       /\ root.t = "obj" => encoded = EncodeObject(root)

C9_Witness == root = N1 /\ encoded = Threw(InvalidRoot)

\* the triples of the given entries
RECURSIVE WireEntries(_)
WireEntries(entries) ==
  IF entries = <<>> THEN <<>>
  ELSE LET key == TextEncode(Head(entries)[1])
       IN  WireU16(Len(key)) \o key \o EncodeValue(Head(entries)[2]).bytes
           \o WireEntries(Tail(entries))

WireMap(entries) == << 2 >> \o WireU32(Len(entries)) \o WireEntries(entries)

RECURSIVE WireItems(_)
WireItems(items) ==
  IF items = <<>> THEN <<>>
  ELSE EncodeValue(Head(items)).bytes \o WireItems(Tail(items))

\* C11: encodeArray writes tag 0x01, the 4-byte big-endian count of the
\* items, then the encoding of each item in list order, and nothing else.
C11_ListLayout ==
  (root.t = "arr" /\ encoded.ok)
    => encoded.bytes = << 1 >> \o WireU32(Len(root.items)) \o WireItems(root.items)

C11_Witness ==
  /\ root = Arr(<< Str(S_x), Arr(<< Half >>) >>) /\ encoded.ok
  /\ encoded.bytes = << 1, 0, 0, 0, 2, 4, 0, 0, 0, 1, 120,
                        1, 0, 0, 0, 1, 3, 63, 224, 0, 0, 0, 0, 0, 0 >>

\* -2147483648 <= n <= 2147483647, for n given by sign and magnitude
WireInInt32(n) ==
  n.hi < 32768 \/ (n.neg /\ n.hi = 32768 /\ n.lo = 0)

\* n as a 4-byte big-endian two's-complement integer
WireInt32(n) ==
  LET hi == IF ~n.neg THEN n.hi
            ELSE IF n.lo = 0 THEN (65536 - n.hi) % 65536 ELSE 65535 - n.hi
      lo == IF ~n.neg \/ n.lo = 0 THEN n.lo ELSE 65536 - n.lo
  IN  << hi \div 256, hi % 256, lo \div 256, lo % 256 >>

\* the bytes of the single item of an encoded one-item list
ItemBytes == SubSeq(encoded.bytes, 6, Len(encoded.bytes))

\* C12: an integer n with -2147483648 <= n <= 2147483647 is written as tag
\* 0x02 and n as a 4-byte big-endian two's-complement integer (5 bytes);
\* an integer outside that range is written as 9 bytes with tag 0x03.
C12_NumberClassification ==
  \A n \in IntegerSamples :
    (root = NumberList(n) /\ encoded # NotEncoded)
      => /\ encoded.ok
         /\ WireInInt32(n) => ItemBytes = << 2 >> \o WireInt32(n)
         /\ ~WireInInt32(n) => (Len(ItemBytes) = 9 /\ ItemBytes[1] = 3)

C12_Witness ==
  /\ root = Arr(<< Num(<< 193, 224, 0, 0, 0, 0, 0, 0 >>) >>)
  /\ encoded = Ok(<< 1, 0, 0, 0, 1, 2, 128, 0, 0, 0 >>)

C12_WitnessOutside ==
  /\ root = Arr(<< Num(<< 65, 224, 0, 0, 0, 0, 0, 0 >>) >>)
  /\ encoded = Ok(<< 1, 0, 0, 0, 1, 3, 65, 224, 0, 0, 0, 0, 0, 0 >>)

\* the unknown-tag error naming a byte
WireUnknownTag(byte) == [msg |-> "Unknown type byte", byte |-> byte]

\* C13: once a byte outside 0x00 .. 0x04 was read where a tag is expected,
\* the decode has failed with the unknown-tag error naming that byte, and
\* decode and decodeResponse return no value.
C13_UnknownTag ==
  (type \notin -1..4)
    => /\ pc = "error"
       /\ result = Thrown(WireUnknownTag(type))
       /\ call = "decoded" => decoded = Thrown(WireUnknownTag(type))
       /\ call = "responded" => response = Thrown(WireUnknownTag(type))

C13_Witness ==
  /\ call = "decoded" /\ buffer = << 1, 0, 0, 0, 1, 255 >>
  /\ type = 255 /\ offset = 6
  /\ decoded = Thrown(WireUnknownTag(255))

\* the entry of an envelope for an argument that was supplied
SuppliedEntry(key, list) == IF list = Undefined THEN <<>> ELSE << << key, list >> >>

\* C14: encodeResponse(data, traceback) encodes a Map with a "data" entry iff
\* data is supplied (an empty list counts), a "traceback" entry iff traceback
\* is supplied, no other entry, and "data" before "traceback".
C14_EncodeResponse ==
  (root.t = "encodeResponse" /\ encoded # NotEncoded)
    => encoded = Ok(WireMap(SuppliedEntry(K_data, root.data)
                            \o SuppliedEntry(K_traceback, root.traceback)))

C14_Witness ==
  /\ root = ResponseArgs(Arr(<<>>), Arr(<< Half >>))
  /\ encoded = Ok(<< 2, 0, 0, 0, 2, 0, 4, 100, 97, 116, 97, 1, 0, 0, 0, 0,
                     0, 9, 116, 114, 97, 99, 101, 98, 97, 99, 107,
                     1, 0, 0, 0, 1, 3, 63, 224, 0, 0, 0, 0, 0, 0 >>)

\* wire maps with a key in several entries
DuplicateKeyEntries ==
  << << S_a, Str(S_x) >>, << S_b, Null >>, << S_a, Half >> >>
DuplicateProtoEntries ==
  << << K_proto, Str(S_x) >>, << K_proto, Str(<<>>) >> >>

\* the value of the last of the entries with the given key
LastValue(entries, key) ==
  LET last == CHOOSE i \in 1..Len(entries) :
                /\ entries[i][1] = key
                /\ \A j \in (i + 1)..Len(entries) : entries[j][1] # key
  IN  entries[last][2]

\* the map holds each key of the entries once, with the value of the last
\* entry of that key
LastWriteWins(map, entries) ==
  \A k \in 1..Len(entries) :
    LET key == entries[k][1]
        held == {i \in 1..Len(map.props) : map.props[i][1] = key}
    IN  /\ Cardinality(held) = 1
        /\ \A i \in held : Unmarked(map.props[i][2]) = LastValue(entries, key)

\* C15: the Map decoded from a map buffer with the same key in several
\* entries holds that key once, with the value of the last such entry.
C15_LastWriteWins ==
  \A entries \in {DuplicateKeyEntries, DuplicateProtoEntries} :
    (call = "decoded" /\ buffer = WireMap(entries))
      => (decoded.ok /\ decoded.value.t = "obj"
          /\ LastWriteWins(decoded.value, entries))

\* for a key other than "__proto__" the last entry wins
C15_OrdinaryKey ==
  (call = "decoded" /\ buffer = WireMap(DuplicateKeyEntries))
    => (decoded.ok /\ decoded.value.t = "obj"
        /\ LastWriteWins(decoded.value, DuplicateKeyEntries))

C15_ProtoDecoded ==
  /\ call = "decoded" /\ buffer = WireMap(DuplicateProtoEntries)
  /\ decoded.ok /\ ~HasOwn(decoded.value, K_proto)

\* the entries of a decoded map without the marker of decodeObject
DecodedEntries(map) == Unmarked(map).props

\* C16: encodeObject emits the entries of a map in the order in which they
\* were set, whatever the keys, and decodeObject yields a Map whose entries
\* are in the order of the wire.
C16_MapOrder ==
  \A pairs \in {IntegerKeyPairs, LetterKeyPairs} :
    /\ (root = MkObj(pairs) /\ encoded.ok) => encoded.bytes = WireMap(pairs)
    /\ (call = "decoded" /\ buffer = WireMap(pairs))
         => (decoded.ok /\ decoded.value.t = "obj"
             /\ DecodedEntries(decoded.value) = pairs)

\* for keys that are not canonical array indices both orders are kept
C16_LetterKeys ==
  /\ (root = MkObj(LetterKeyPairs) /\ encoded.ok)
       => encoded.bytes = WireMap(LetterKeyPairs)
  /\ (call = "decoded" /\ buffer = WireMap(LetterKeyPairs))
       => (decoded.ok /\ decoded.value.t = "obj"
           /\ DecodedEntries(decoded.value) = LetterKeyPairs)

C16_IntegerKeysEncoded ==
  /\ root = MkObj(IntegerKeyPairs)
  /\ encoded = Ok(<< 2, 0, 0, 0, 2, 0, 1, 49, 0, 0, 1, 50, 4, 0, 0, 0, 1, 120 >>)

C16_IntegerKeysDecoded ==
  /\ call = "decoded" /\ buffer = IntegerKeyBytes /\ buffer = WireMap(IntegerKeyPairs)
  /\ decoded.ok
  /\ ObjectKeys(decoded.value) = << <<49>>, <<50>>, K_zunType >>

\* the number of bytes the method about to run takes from the buffer when
\* it succeeds
BytesRead ==
  CASE pc = "decodeValue" -> 1
    [] pc \in {"decodeArray", "decodeObject", "decodeString"} -> 4
    [] pc = "readKeyLength" -> 2
    [] pc \in {"readKey", "readStringBytes"} ->
         Len(Slice(buffer, offset, offset + len))
    [] pc = "decodeBoolean" -> 1
    [] pc = "decodeInt32" -> 4
    [] pc = "decodeDouble" -> 8
    [] OTHER -> 0

\* C17: during a decode the offset never decreases, and every read of a tag,
\* a fixed-width field, a key or a string that succeeds advances it by
\* exactly the number of bytes read.
C17_CursorAdvance ==
  [][pc \notin {"done", "error"}
       => /\ offset' >= offset
          /\ pc' # "error" => offset' = offset + BytesRead]_vars

\* the offset never decreases during a decode
C17_NeverRewinds ==
  [][pc \notin {"done", "error"} => offset' >= offset]_vars

\* every successful read other than that of a key advances the offset by
\* the number of bytes read
C17_AdvanceButKey ==
  [][(pc \notin {"done", "error", "readKey"} /\ pc' # "error")
       => offset' = offset + BytesRead]_vars

\* C18: a decode starts at decodeValue with the offset 0, and it ends: it
\* reaches the state in which one value is returned or the state in which
\* the buffer-underrun or the unknown-tag error is thrown, whatever counts
\* the buffer declares.
C18_Terminates ==
  /\ [][(call = "none" /\ call' = "decode")
          => (pc' = "decodeValue" /\ offset' = 0)]_vars
  /\ (call = "decode") ~> (pc \in {"done", "error"})
  /\ [](pc = "done" => result.ok)
  /\ [](pc = "error"
          => (~result.ok /\ result.error \in {BufferUnderrun, WireUnknownTag(type)}))

\* a list declaring 4294967295 items and holding one
C18_Witness ==
  /\ call = "decoded" /\ buffer = << 1, 255, 255, 255, 255, 0 >>
  /\ pc = "error" /\ offset = 6
  /\ decoded = Thrown(BufferUnderrun)

\* the call of zunRequest has ended
Finished == cpc \in {"returned", "thrown"}

\* the decoded envelope holds a non-empty data list
HasData == response.ok /\ response.value.data.t = "arr"
           /\ response.value.data.items # <<>>

\* C19: the body of every request zunRequest sends is the encoding of a
\* top-level List, and zunRequest returns a response exactly when the status
\* is 200 and the data of the decoded envelope is a non-empty list; in every
\* other case it throws.
C19_Transport ==
  /\ request # NoRequest
       => /\ root.t = "arr"
          /\ request.body = << 1 >> \o WireU32(Len(root.items)) \o WireItems(root.items)
  /\ Finished
       => /\ outcome.kind \in {"returned", "thrown"}
          /\ outcome.kind = "returned"
               <=> (http.status = 200 /\ call = "responded" /\ HasData)
          /\ outcome.kind = "returned" => outcome.value = response.value

C19_Witness ==
  /\ cpc = "returned" /\ http.status = 200
  /\ request.body = << 1, 0, 0, 0, 0 >>
  /\ outcome.kind = "returned"
  /\ Unmarked(outcome.value.data) = Arr(<< Half >>)

C19_WitnessThrown ==
  /\ cpc = "thrown" /\ http.status = 200 /\ call = "responded"
  /\ response.ok /\ Unmarked(response.value.data) = Arr(<<>>)
  /\ outcome.kind = "thrown"

\* status 200 and an envelope decoded from the body, without data
FailureEnvelope ==
  /\ Finished /\ http.status = 200 /\ call = "responded"
  /\ response.ok /\ ~HasData

\* the traceback of the decoded envelope is a non-empty list
HasTraceback ==
  /\ response.value.traceback.t = "arr"
  /\ response.value.traceback.items # <<>>

ThrewZetrafiError(code) ==
  outcome.kind = "thrown" /\ outcome.name = "ZetrafiError" /\ outcome.code = code

\* C20: on status 200 with empty or absent data zunRequest throws
\* ZetrafiError ZUN_RUNTIME_ERROR carrying the traceback when the traceback
\* is a non-empty list and ZetrafiError ZUN_REQUEST_FAILED otherwise; a
\* decodable body that is a List or a primitive gives ZUN_REQUEST_FAILED.
C20_ApplicationFailure ==
  FailureEnvelope
    => /\ HasTraceback => (ThrewZetrafiError("ZUN_RUNTIME_ERROR")
                           /\ outcome.details = response.value.traceback)
       /\ ~HasTraceback => ThrewZetrafiError("ZUN_REQUEST_FAILED")
       /\ result.value.t # "obj" => ThrewZetrafiError("ZUN_REQUEST_FAILED")

\* the same holds when String() converts every item of the traceback
C20_ConvertibleTraceback ==
  (FailureEnvelope
     /\ (HasTraceback => \A i \in 1..Len(response.value.traceback.items) :
                           ~StringThrows(response.value.traceback.items[i])))
    => /\ HasTraceback => (ThrewZetrafiError("ZUN_RUNTIME_ERROR")
                           /\ outcome.details = response.value.traceback)
       /\ ~HasTraceback => ThrewZetrafiError("ZUN_REQUEST_FAILED")
       /\ result.value.t # "obj" => ThrewZetrafiError("ZUN_REQUEST_FAILED")

\* {"traceback": [{"toString": null}]} is reported as a network error
C20_ToStringTraceback ==
  /\ FailureEnvelope /\ buffer = Encode(TracebackOfToString).bytes
  /\ HasTraceback
  /\ ThrewZetrafiError("NETWORK_ERROR")

\* the tag values the enumeration gives to the stream variants
StreamTags == {ZunType_STREAM_ARRAY, ZunType_STREAM_OBJECT}

\* C21: the encoder never emits a tag byte with the value of STREAM_ARRAY or
\* STREAM_OBJECT (checked at the root tag and at the tag of the first item of
\* a list), and the decoder accepts no such tag byte: reading one fails with
\* the unknown-tag error.
C21_StreamTagsUnused ==
  /\ (IsCollection(root) /\ encoded.ok) => encoded.bytes[1] \notin StreamTags
  /\ (root.t = "arr" /\ root.items # <<>> /\ encoded.ok)
       => encoded.bytes[6] \notin StreamTags
  /\ type \in StreamTags
       => (pc = "error" /\ result = Thrown(WireUnknownTag(type)))

\* the root tag is never a stream tag
C21_RootTag ==
  (IsCollection(root) /\ encoded.ok) => encoded.bytes[1] \notin StreamTags

\* [0.5] is encoded with the item tag 0x03, and the decoder reads it back
C21_FloatTagEmitted ==
  /\ root = Arr(<< Half >>) /\ encoded.ok
  /\ encoded.bytes[6] = ZunType_STREAM_ARRAY
  /\ call = "decoded" /\ FullBuffer /\ type = ZunType_STREAM_ARRAY
  /\ decoded.ok

\* the key length field and the key bytes of the only entry of a one-entry
\* map whose value is null: 02, the count, the field, the key, 00
OneNullEntry ==
  /\ root.t = "obj" /\ Len(root.props) = 1
  /\ root.props[1][1] # K_zunType /\ root.props[1][2] = Null
  /\ encoded.ok

KeyBytesWritten == Len(encoded.bytes) - 8

\* C22: the 2-byte key length field of an emitted entry equals the number of
\* key bytes written right after it, also for a key longer than 65535 bytes
\* (checked on the maps with one entry whose value is null, where the key
\* bytes are all the bytes between the field and the final null tag).
C22_KeyLengthField ==
  OneNullEntry => GetUint16(encoded.bytes, 5) = KeyBytesWritten

\* the field is right for every key of at most 65535 bytes
C22_FitsField ==
  (OneNullEntry /\ KeyBytesWritten <= 65535)
    => GetUint16(encoded.bytes, 5) = KeyBytesWritten

\* a key of 65536 bytes is accepted and written with the length field 0
C22_OverLongKey ==
  /\ OneNullEntry
  /\ Len(root.props[1][1]) = 65536
  /\ KeyBytesWritten = 65536
  /\ GetUint16(encoded.bytes, 5) = 0

\* C23: when decode(b) succeeded with a value and decode is then run on b
\* followed by more bytes, the second run succeeds with the same value and
\* ends at the same offset.
C23_TrailingBytes ==
  (call = "decoded" /\ prior # NoPrior /\ prior.outcome.ok)
    => /\ decoded = prior.outcome
       /\ offset = prior.offset

\* both runs returned a value, the second on a longer buffer
C23_Witness ==
  /\ call = "decoded" /\ prior # NoPrior
  /\ prior.outcome.ok /\ decoded.ok
  /\ Len(buffer) > Len(prior.buffer)
  /\ offset = Len(prior.buffer)

\* the bytes after the value are not even looked at: a trailer that is no
\* message at all changes nothing
C23_WitnessGarbage ==
  /\ call = "decoded" /\ prior # NoPrior
  /\ prior.outcome.ok /\ decoded.ok
  /\ prior.buffer = << 1, 0, 0, 0, 1, 0 >>
  /\ buffer = prior.buffer \o << 255 >>

\* the classes of src/src/errors.ts: ZetrafiError and its subclasses
ZetrafiErrorNames ==
  {"ZetrafiError", "AuthenticationError", "RateLimitError", "ValidationError",
   "NotFoundError", "ForbiddenError", "IpRestrictionError"}

\* C24: whatever makes zunRequest fail, what it throws is a ZetrafiError or
\* one of its subclasses, never a plain Error.
C24_AlwaysZetrafiError ==
  cpc = "thrown" => outcome.name \in ZetrafiErrorNames

\* every failure from the try block on is a ZetrafiError
C24_InsideTry ==
  (cpc = "thrown" /\ timer # "unset") => outcome.name \in ZetrafiErrorNames

\* request data holding an undefined field: encodeArray throws a plain Error
\* before the try block, and zunRequest lets it through
C24_PlainError ==
  /\ cpc = "thrown"
  /\ root = Arr(<< MkObj(<< << S_a, Undefined >> >>) >>)
  /\ ~encoded.ok
  /\ timer = "unset"
  /\ outcome.name = "Error"

\* the message of the ForbiddenError for a 403 response
ForbiddenMessage ==
  IF decoded.ok /\ Unmarked(decoded.value) = Arr(<<>>)
    THEN "Invalid API key or access denied"
    ELSE "Access denied"

\* C25: a 403 response always ends in a ForbiddenError with status 403,
\* with the message 'Invalid API key or access denied' when the body decodes
\* to an empty list and 'Access denied' otherwise, also when the body is
\* empty or cannot be decoded.
C25_Forbidden ==
  (Finished /\ http.status = 403)
    => /\ outcome.kind = "thrown"
       /\ outcome.name = "ForbiddenError"
       /\ outcome.statusCode = 403
       /\ outcome.message = ForbiddenMessage

\* the claim holds for the bodies the decoder accepts
C25_DecodableBody ==
  (Finished /\ http.status = 403 /\ call = "decoded" /\ decoded.ok)
    => /\ outcome.kind = "thrown"
       /\ outcome.name = "ForbiddenError"
       /\ outcome.statusCode = 403
       /\ outcome.message = ForbiddenMessage

\* a 403 response with an empty body: decode throws, and the catch clause
\* reports a network error with status 0
C25_EmptyBody ==
  /\ Finished /\ http.status = 403 /\ http.body = <<>>
  /\ call = "decoded" /\ ~decoded.ok
  /\ outcome.name = "ZetrafiError" /\ outcome.code = "NETWORK_ERROR"
  /\ outcome.statusCode = 0

\* a call of request has returned or thrown
Completed(c) == calls[c].at \in {"returned", "done", "thrown"}

\* C26: when a call of request or of zunRequest has returned or thrown, the
\* timeout it started is no longer pending, whichever path the call took,
\* so the abort cannot fire afterwards.
C26_TimerCleared ==
  /\ Finished => timer # "armed"
  /\ \A c \in DOMAIN calls : Completed(c) => calls[c].timer # "armed"

\* no abort fires after the call has returned or thrown
C26_NoLateAbort ==
  [][/\ (timer' = "fired" /\ timer # "fired") => ~Finished
     /\ \A c \in DOMAIN calls :
          (calls'[c].timer = "fired" /\ calls[c].timer # "fired") => ~Completed(c)]_vars

\* a zunRequest that failed after the fetch and a request that returned,
\* both with their timeout cleared
C26_Witness ==
  /\ cpc = "thrown" /\ timer = "cleared" /\ outcome.code = "NETWORK_ERROR"
  /\ \E c \in DOMAIN calls : calls[c].at = "returned" /\ calls[c].timer = "cleared"

\* error paths of request: a 429 response and a body that is no JSON
C26_WitnessErrors ==
  /\ cpc = "returned" /\ timer = "cleared"
  /\ \E c, d \in DOMAIN calls :
       /\ calls[c].at = "thrown" /\ calls[c].outcome.name = "RateLimitError"
       /\ calls[c].timer = "cleared"
       /\ calls[d].at = "thrown" /\ calls[d].outcome.code = "NETWORK_ERROR"
       /\ calls[d].http.status = 200 /\ calls[d].timer = "cleared"

\* the outcome is the timeout error
TimedOut(o) ==
  /\ o.kind = "thrown" /\ o.name = "ZetrafiError"
  /\ o.code = "TIMEOUT" /\ o.statusCode = 408

C27_WitnessResolved ==
  /\ cpc = "returned" /\ timer = "cleared" /\ http.status = 200
  /\ \E c \in DOMAIN calls :
       calls[c].at = "returned" /\ calls[c].timer = "cleared"
         /\ calls[c].http.status = 200

\* limit, remaining and reset as the headers of a response state them; 0
\* for a response without rate-limit headers
StatedLimits(headers) ==
  IF headers = HeadersA THEN << 10, 0, 5 >>
  ELSE IF headers = HeadersB THEN << 20, 3, 9 >>
  ELSE << 0, 0, 0 >>

ThrownLimits(o) == << o.details.limit, o.details.remaining, o.details.reset >>

\* C28: the RateLimitError thrown for a 429 response carries the limit,
\* remaining and reset values of the headers of that same response (0
\* without such headers), also when other requests run on the same client.
C28_OwnRateLimit ==
  \A c \in DOMAIN calls :
    calls[c].outcome.name = "RateLimitError"
      => ThrownLimits(calls[c].outcome) = StatedLimits(calls[c].http.headers)

\* with one request at a time the values are those of the response
C28_Alone ==
  \A c \in DOMAIN calls :
    (/\ calls[c].outcome.name = "RateLimitError"
     /\ \A d \in DOMAIN calls \ {c} : calls[d].at = "idle")
      => ThrownLimits(calls[c].outcome) = StatedLimits(calls[c].http.headers)

\* two requests, both answered 429: the error of the one whose headers say
\* limit 10 carries the limit 20 of the other
C28_OtherResponse ==
  \E c, d \in DOMAIN calls :
    /\ c # d
    /\ calls[c].outcome.name = "RateLimitError"
    /\ calls[c].http.headers = HeadersA
    /\ calls[d].http.headers = HeadersB
    /\ ThrownLimits(calls[c].outcome) = << 20, 3, 9 >>

\* the client holds no API key
NoKey == apiKey \in {Undefined, Str(<<>>)}

\* the outcome is an AuthenticationError
Unauthenticated(o) ==
  /\ o.kind = "thrown" /\ o.name = "AuthenticationError"
  /\ o.code = "AUTHENTICATION_ERROR" /\ o.statusCode = 401

\* the methods that call request with requiresAuth
AuthenticatedOps == {"getApiKeyInfo", "revokeApiKey"}

\* a call of zunRequest made without a key throws AuthenticationError and
\* hands no request to fetch
ZunCallWithoutKey ==
  (cpc = "idle" /\ cpc' # "idle" /\ NoKey)
    => (cpc' = "thrown" /\ Unauthenticated(outcome') /\ request' = NoRequest)

\* the same for an authenticated call of request
CallWithoutKey(c) ==
  (calls[c].at = "idle" /\ calls'[c].at # "idle" /\ NoKey
     /\ calls'[c].op \in AuthenticatedOps)
    => /\ calls'[c].at = "thrown"
       /\ Unauthenticated(calls'[c].outcome)
       /\ calls'[c].request = NoRequest

\* the key is forgotten only by a revokeApiKey whose request was answered
\* with success, and that one does forget it
KeyForgotten ==
  /\ (~NoKey /\ apiKey' = Undefined)
       => \E c \in DOMAIN calls :
            /\ calls[c].op = "revokeApiKey" /\ calls[c].at = "returned"
            /\ calls[c].http.status = 200
            /\ calls'[c].at = "done"
  /\ \A c \in DOMAIN calls :
       (calls[c].op = "revokeApiKey" /\ calls[c].at = "returned"
          /\ calls'[c].at = "done") => apiKey' = Undefined

\* a revokeApiKey whose request failed is over, and leaves the key alone
FailedRevoke ==
  \A c \in DOMAIN calls :
    (calls[c].op = "revokeApiKey" /\ calls'[c].at = "thrown")
      => (calls[c].at = "thrown" \/ apiKey' = apiKey)

C29_WitnessFailedRevoke ==
  /\ apiKey = Str(S_key)
  /\ \E c \in DOMAIN calls :
       /\ calls[c].op = "revokeApiKey" /\ calls[c].at = "thrown"
       /\ calls[c].http.status = 429

\* after a revoke, requestApiKey got a new key and an authenticated call
\* was sent with it
C29_WitnessNewKey ==
  /\ apiKey = Str(S_new)
  /\ \E c, d \in DOMAIN calls :
       /\ calls[c].op = "requestApiKey" /\ calls[c].at = "done"
       /\ calls[d].op = "revokeApiKey" /\ calls[d].at = "thrown"
       /\ Unauthenticated(calls[d].outcome)
  /\ cpc = "fetch"

\* the Authorization header of a request is Bearer and the client's key
CarriesKey(req) ==
  /\ HasOwn(req.headers, K_Authorization)
  /\ GetProp(req.headers, K_Authorization) = Str(S_Bearer \o apiKey.s)

\* zunRequest hands fetch a request with the key
ZunSendsKey == (cpc = "try" /\ cpc' = "fetch") => CarriesKey(request')

\* an authenticated call of request hands fetch a request with the key
SendsKey(c) ==
  (calls[c].at = "idle" /\ calls'[c].at = "fetch"
     /\ calls'[c].op \in AuthenticatedOps) => CarriesKey(calls'[c].request)

\* C30: every authenticated request the client sends, through request or
\* through zunRequest, carries Authorization: Bearer <the client's API key>,
\* whatever custom headers were configured.
C30_Authorization ==
  [][ZunSendsKey /\ \A c \in DOMAIN calls : SendsKey(c)]_vars

\* request sets the header after the custom headers were copied
C30_Request == [][\A c \in DOMAIN calls : SendsKey(c)]_vars

\* zunRequest sends the key when no custom Authorization header is configured
C30_NoCustomAuthorization ==
  [][~HasOwn(customHeaders, K_Authorization) => ZunSendsKey]_vars

\* zunRequest sent the configured custom Authorization header in place of
\* the key
C30_Replaced ==
  /\ cpc = "fetch"
  /\ apiKey = Str(S_key)
  /\ GetProp(request.headers, K_Authorization) = Str(S_custom)

====
